---- MODULE Spec2Model ----
(***************************************************************************)
(* A model of the AIshA shell's execution engine: the tokenizer and the    *)
(* grammar validator, the command builder, the executor (and-or lists,     *)
(* pipelines, single commands, background segments), the job table and     *)
(* the line editor's terminal handling.                                    *)
(*                                                                         *)
(* C strings are sequences of one-character strings; C indices stay        *)
(* 0-based in the variables and are shifted by one when a TLA+ sequence is *)
(* indexed.  A pointer that may be NULL is a sequence of length 0 (NULL)   *)
(* or 1 (the value).                                                       *)
(***************************************************************************)
EXTENDS Integers, Sequences, FiniteSets, TLC

VARIABLES
    fs,         \* the file system the redirections see
    ao,         \* execute_and_or_list: its arguments and loop variables
    log,        \* history: one entry per segment handed to the builder
    pp,         \* execute_pipeline: the parent's locals, fd table, children
    sc,         \* execute_single_command: the parent's locals and its child
    rl,         \* shell_readline: the terminal and the editor state
    sh,         \* main: the loop of the shell and what it has executed
    bg,         \* the job table, next_job_id and the background processes
    g           \* g_last_exit_status, g_last_background_pid, g_foreground_pid

vars == <<fs, ao, log, pp, sc, rl, sh, bg, g>>

\* A subsystem that is not running in the specification at hand.
Idle == [pc |-> "idle"]

----------------------------------------------------------------------------
(* Shared constants and helpers                                            *)

SHELL_SUCCESS == 0
SHELL_FAILURE == 1

\* The globals of builtins_ai.c and signals.c as they are at start-up; `sent`
\* is the last kill() a signal handler of the shell has made, as
\* <<pid, signal>>.
Globals ==
    [last_exit_status |-> 0, last_background_pid |-> 0, foreground_pid |-> -1,
     sent |-> <<>>]

PROCESS_RUNNING == 0
PROCESS_STOPPED == 1

\* background.c: the list background_jobs (head first) and next_job_id.
NoJobs == [pc |-> "idle", jobs |-> <<>>, next_job_id |-> 1]

Job(pid, job_id, command, status) ==
    [pid |-> pid, job_id |-> job_id, command |-> command, status |-> status]

\* (mutant) the status test is the wrong way round.
add_background_job_StatusFlipped(b, pid, command, status) ==
    [b EXCEPT
       !.jobs = <<Job(pid, b.next_job_id, command,
                      IF status = 0 THEN PROCESS_STOPPED ELSE PROCESS_RUNNING)>>
                \o b.jobs,
       !.next_job_id = b.next_job_id + 1]

\* (mutant) the job id is one more than the number of jobs in the list.
add_background_job_ReusesId(b, pid, command, status) ==
    [b EXCEPT
       !.jobs = <<Job(pid, Len(b.jobs) + 1, command,
                      IF status = 0 THEN PROCESS_RUNNING ELSE PROCESS_STOPPED)>>
                \o b.jobs,
       !.next_job_id = Len(b.jobs) + 2]

\* add_background_job(pid, command, status): a new head of the list.
add_background_job(b, pid, command, status) ==
    [b EXCEPT
       !.jobs = <<Job(pid, b.next_job_id, command,
                      IF status = 0 THEN PROCESS_RUNNING ELSE PROCESS_STOPPED)>>
                \o b.jobs,
       !.next_job_id = b.next_job_id + 1]

None == <<>>
Some(v) == <<v>>

Min(S) == CHOOSE x \in S : \A y \in S : x <= y
Max(S) == CHOOSE x \in S : \A y \in S : x >= y

Tok(t, v) == [type |-> t, value |-> v, quoted |-> 0]

\* Values execute_pipeline / execute_single_command can return for a command
\* that ran: success, failure, killed by SIGINT (128 + 2).
ResultCodes == {0, 1, 130}

----------------------------------------------------------------------------
(* Command builder: command.c                                              *)

has_pipes(toks) == \E i \in 1..Len(toks) : toks[i].type = "PIPE"

has_and_or(toks) == \E i \in 1..Len(toks) : toks[i].type \in {"AND", "OR"}

has_sequential_or_background(toks) ==
    \E i \in 1..Len(toks) : toks[i].type \in {"SEMICOLON", "AMPERSAND"}

IsRedirTarget(toks, i) == i + 1 <= Len(toks) /\ toks[i + 1].type = "WORD"

\* First loop: every input file is opened O_RDONLY and closed again.
\* Second loop: every output file is opened O_WRONLY|O_CREAT (and so created)
\* until the first one that cannot be opened.
validate_all_redirections(toks, f) ==
    LET inBad  == {i \in 1..Len(toks) : /\ toks[i].type = "INPUT_REDIRECT"
                                        /\ IsRedirTarget(toks, i)
                                        /\ toks[i + 1].value \notin f.exist}
        outIdx == {i \in 1..Len(toks) :
                      /\ toks[i].type \in {"OUTPUT_REDIRECT", "OUTPUT_APPEND"}
                      /\ IsRedirTarget(toks, i)}
        outBad == {i \in outIdx : toks[i + 1].value \in f.nowrite}
        opened == {toks[i + 1].value :
                      i \in {j \in outIdx : outBad = {} \/ j < Min(outBad)}}
    IN  IF inBad # {}
        THEN [status |-> SHELL_FAILURE, fs |-> f]
        ELSE [status |-> IF outBad = {} THEN SHELL_SUCCESS ELSE SHELL_FAILURE,
              fs     |-> [f EXCEPT !.exist = @ \cup opened]]

IsRedirOp(t) == t \in {"INPUT_REDIRECT", "OUTPUT_REDIRECT", "OUTPUT_APPEND"}

LastTarget(toks, types) ==
    LET idx == {i \in 1..Len(toks) : toks[i].type \in types /\ IsRedirTarget(toks, i)}
    IN  IF idx = {} THEN None ELSE Some(toks[Max(idx) + 1].value)

ArgIdx(toks) ==
    {i \in 1..Len(toks) : /\ toks[i].type = "WORD"
                          /\ ~(i > 1 /\ IsRedirOp(toks[i - 1].type))}

RECURSIVE SeqOfIdx(_, _)
SeqOfIdx(toks, S) ==
    IF S = {} THEN <<>>
    ELSE <<toks[Min(S)].value>> \o SeqOfIdx(toks, S \ {Min(S)})

\* NULL (None) when the segment is empty or a redirection cannot be opened.
parse_command_from_tokens(toks, f) ==
    IF Len(toks) = 0 THEN [cmd |-> None, fs |-> f]
    ELSE LET v == validate_all_redirections(toks, f)
         IN  IF v.status # SHELL_SUCCESS THEN [cmd |-> None, fs |-> v.fs]
             ELSE [cmd |-> Some([argv        |-> SeqOfIdx(toks, ArgIdx(toks)),
                                 argc        |-> Cardinality(ArgIdx(toks)),
                                 input_file  |-> LastTarget(toks, {"INPUT_REDIRECT"}),
                                 output_file |-> LastTarget(toks, {"OUTPUT_REDIRECT",
                                                                   "OUTPUT_APPEND"}),
                                 append_output |->
                                     LET idx == {i \in 1..Len(toks) :
                                                   /\ toks[i].type \in {"OUTPUT_REDIRECT",
                                                                        "OUTPUT_APPEND"}
                                                   /\ IsRedirTarget(toks, i)}
                                     IN  IF idx # {} /\ toks[Max(idx)].type = "OUTPUT_APPEND"
                                         THEN 1 ELSE 0]),
                   fs  |-> v.fs]

\* The loop of parse_pipeline_from_tokens from token index `i` on (0-based),
\* `start` being the first token of the stage under construction: a stage
\* whose command cannot be built is left out and the loop goes on.
RECURSIVE PipelineLoop(_, _, _, _, _)
PipelineLoop(toks, i, start, cmds, f) ==
    IF i > Len(toks) THEN [commands |-> cmds, fs |-> f]
    ELSE IF i = Len(toks) \/ toks[i + 1].type = "PIPE"
         THEN LET r == parse_command_from_tokens(SubSeq(toks, start + 1, i), f)
              IN  IF i - start > 0
                  THEN PipelineLoop(toks, i + 1, i + 1, cmds \o r.cmd, r.fs)
                  ELSE PipelineLoop(toks, i + 1, i + 1, cmds, f)
         ELSE PipelineLoop(toks, i + 1, start, cmds, f)

parse_pipeline_from_tokens(toks, f) ==
    IF Len(toks) = 0 THEN [pipeline |-> None, fs |-> f]
    ELSE LET r == PipelineLoop(toks, 0, 0, <<>>, f)
         IN  [pipeline |-> Some([commands |-> r.commands,
                                 command_count |-> Len(r.commands)]),
              fs |-> r.fs]

----------------------------------------------------------------------------
(* Executor, token level: execute.c                                        *)

\* What execute_single_command does with a built command, as its caller sees
\* it: the result and the commands that were run.  A command without argv[0]
\* returns SHELL_FAILURE at once; otherwise `res` is the result the command
\* produces (SpecSingle models how it comes about).
\* builtin_exit and builtin_quit end the process that runs them; `exits` tells
\* that this process is the shell.
ExitNames == {<<"e", "x", "i", "t">>, <<"q", "u", "i", "t">>}

ExecuteSingleSummary(cmd, res) ==
    IF cmd.argc = 0
    THEN [result |-> SHELL_FAILURE, procs |-> <<>>, exits |-> FALSE]
    ELSE [result |-> res, procs |-> <<cmd.argv>>,
          exits |-> cmd.argv[1] \in ExitNames]

\* The same for execute_pipeline (SpecPipe models the forks and the waits).
ExecutePipelineSummary(p, res) ==
    IF p.command_count = 0
    THEN [result |-> SHELL_FAILURE, procs |-> <<>>, exits |-> FALSE]
    ELSE IF p.command_count = 1
         THEN ExecuteSingleSummary(p.commands[1], res)
         ELSE [result |-> res,
               procs  |-> [k \in 1..p.command_count |-> p.commands[k].argv],
               exits  |-> FALSE]

\* "Execute this segment" of execute_and_or_list and of
\* execute_sequential_commands: build the pipeline or the command and run it;
\* when the builder returns NULL the previous result `last` is kept.
ExecSegment(seg, f, res, last) ==
    IF has_pipes(seg)
    THEN LET p == parse_pipeline_from_tokens(seg, f)
         IN  IF p.pipeline = None
             THEN [result |-> last, fs |-> p.fs, ran |-> FALSE, procs |-> <<>>,
                   exits |-> FALSE]
             ELSE LET r == ExecutePipelineSummary(p.pipeline[1], res)
                  IN  [result |-> r.result, fs |-> p.fs, ran |-> TRUE,
                       procs |-> r.procs, exits |-> r.exits]
    ELSE LET c == parse_command_from_tokens(seg, f)
         IN  IF c.cmd = None
             THEN [result |-> last, fs |-> c.fs, ran |-> FALSE, procs |-> <<>>,
                   exits |-> FALSE]
             ELSE LET r == ExecuteSingleSummary(c.cmd[1], res)
                  IN  [result |-> r.result, fs |-> c.fs, ran |-> TRUE,
                       procs |-> r.procs, exits |-> r.exits]

\* The inner while of the short-circuit: from index i (0-based) to the next
\* token of type `stop`, ';' or '&', or to token_count.
SkipUntil(toks, i, stop) ==
    Min({j \in i..Len(toks) :
            j = Len(toks) \/ toks[j + 1].type \in {stop, "SEMICOLON", "AMPERSAND"}})

\* (mutant) after a failed && only the next operator is looked at.
AndOrAdvance_SkipsOnePipeline(toks, i, lr) ==
    IF toks[i + 1].type = "AND" /\ lr # 0 THEN SkipUntil(toks, i + 1, "AND") + 1
    ELSE IF toks[i + 1].type = "OR" /\ lr = 0 THEN SkipUntil(toks, i + 1, "AND") + 1
    ELSE i + 1

\* Where the loop of execute_and_or_list goes on after the operator at index
\* i, the segment before it having ended with result lr: the next value of
\* both `start` and `i` (after the for's i++).
AndOrAdvance(toks, i, lr) ==
    IF toks[i + 1].type = "AND" /\ lr # 0 THEN SkipUntil(toks, i + 1, "OR") + 1
    ELSE IF toks[i + 1].type = "OR" /\ lr = 0 THEN SkipUntil(toks, i + 1, "AND") + 1
    ELSE i + 1

\* (mutant) the result of a segment is kept only when it is non-zero.
AndOrNext_KeepsFailure(st, is_end, is_op, lr, nxt) ==
    [st EXCEPT !.last_result = IF lr # 0 THEN lr ELSE st.last_result,
               !.i     = IF is_end THEN st.i ELSE nxt,
               !.start = IF is_op THEN nxt ELSE st.start,
               !.pc    = IF is_end \/ nxt > Len(st.toks) THEN "done" ELSE "loop"]

\* The loop variables after an iteration at index i whose segment (if one was
\* run) left the result lr; `op` tells whether tokens[i] is && or ||.
AndOrNext(st, is_end, is_op, lr, nxt) ==
    [st EXCEPT !.last_result = lr,
               !.i     = IF is_end THEN st.i ELSE nxt,
               !.start = IF is_op THEN nxt ELSE st.start,
               !.pc    = IF is_end \/ nxt > Len(st.toks) THEN "done" ELSE "loop"]

AndOrEvent(st, x) ==
    <<[start |-> st.start, len |-> st.i - st.start, ran |-> x.ran,
       result |-> x.result, procs |-> x.procs]>>

\* The segment was run with outcome x; when it was `exit` in the shell
\* process, nothing comes after it.
AndOrRun(st, f, is_end, is_op, x) ==
    [ao |-> IF x.exits THEN [st EXCEPT !.pc = "exited"]
            ELSE AndOrNext(st, is_end, is_op, x.result,
                           IF is_op THEN AndOrAdvance(st.toks, st.i, x.result)
                           ELSE st.i + 1),
     fs |-> x.fs,
     ev |-> AndOrEvent(st, x)]

AndOrPass(st, f, is_end, is_op) ==
    [ao |-> AndOrNext(st, is_end, is_op, st.last_result,
                      IF is_op THEN AndOrAdvance(st.toks, st.i, st.last_result)
                      ELSE st.i + 1),
     fs |-> f,
     ev |-> <<>>]

AndOrAt(st, f, res, is_end, is_op) ==
    IF (is_end \/ is_op) /\ st.i - st.start > 0
    THEN AndOrRun(st, f, is_end, is_op,
                  ExecSegment(SubSeq(st.toks, st.start + 1, st.i), f, res,
                              st.last_result))
    ELSE AndOrPass(st, f, is_end, is_op)

IsEndAt(toks, i) == i = Len(toks) \/ toks[i + 1].type = "EOF"

\* One iteration of the for loop of execute_and_or_list, `res` being the
\* result of the segment if it is run in this iteration.
AndOrIterate(st, f, res) ==
    AndOrAt(st, f, res, IsEndAt(st.toks, st.i),
            ~IsEndAt(st.toks, st.i) /\ st.toks[st.i + 1].type \in {"AND", "OR"})

AndOrIter ==
    /\ ao.pc = "loop"
    /\ \E res \in ResultCodes :
          LET r == AndOrIterate(ao, fs, res)
          IN  /\ ao'  = r.ao
              /\ fs'  = r.fs
              /\ log' = log \o r.ev
    /\ UNCHANGED <<pp, sc, rl, sh, bg, g>>

\* execute_and_or_list(tokens, token_count) is entered.
AndOrCall(toks) ==
    [pc |-> "loop", toks |-> toks, i |-> 0, start |-> 0,
     last_result |-> SHELL_SUCCESS]

----------------------------------------------------------------------------
(* SpecAndOr: execute_and_or_list on every and-or list of up to            *)
(* MaxPipelines pipelines drawn from PipelineMenu.                         *)

MaxPipelines == 3

FileNames == {<<"f">>}

W(c) == Tok("WORD", <<c>>)

PipelineMenu ==
    { <<W("a")>>,
      <<W("a"), Tok("INPUT_REDIRECT", <<"<">>), W("f")>>,
      <<W("a"), Tok("INPUT_REDIRECT", <<"<">>), W("f"), Tok("PIPE", <<"|">>), W("b")>>,
      <<W("a"), Tok("OUTPUT_REDIRECT", <<">">>), W("f")>> }

RECURSIVE AndOrLists(_)
AndOrLists(n) ==
    IF n = 1 THEN PipelineMenu
    ELSE {l \o <<op>> \o p : l \in AndOrLists(n - 1),
                              op \in {Tok("AND", <<"&", "&">>), Tok("OR", <<"|", "|">>)},
                              p \in PipelineMenu}

FsStates == [exist : SUBSET FileNames, nowrite : SUBSET FileNames]

InitAndOr ==
    /\ fs \in [exist : SUBSET FileNames, nowrite : {{}}]
    /\ \E n \in 1..MaxPipelines : \E l \in AndOrLists(n) :
       \E eof \in {<<>>, <<Tok("EOF", <<>>)>>} :
          ao = AndOrCall(l \o eof)
    /\ log = <<>>
    /\ pp = Idle /\ sc = Idle /\ rl = Idle /\ sh = Idle /\ bg = NoJobs
    /\ g = Globals

NextAndOr == AndOrIter

SpecAndOr == InitAndOr /\ [][NextAndOr]_vars

\* ---- the pipelines of the list and what the log says about them

\* 0-based index of the first token of every pipeline but the first: the
\* token after each && and ||.
LaterStarts(toks) == {i \in 1..Len(toks) : toks[i].type \in {"AND", "OR"}}

Attempted(s) == \E k \in 1..Len(log) : log[k].start = s
Executed(s)  == \E k \in 1..Len(log) : log[k].start = s /\ log[k].ran
BuildFailed(s) == \E k \in 1..Len(log) : log[k].start = s /\ ~log[k].ran
RanBefore(s) == {k \in 1..Len(log) : log[k].ran /\ log[k].start < s}
LastResultBefore(s) == log[Max(RanBefore(s))].result

ShortCircuitSaysRun(toks, s) ==
    \/ toks[s].type = "AND" /\ LastResultBefore(s) = 0
    \/ toks[s].type = "OR"  /\ LastResultBefore(s) # 0

\* C1: in an and-or list, a pipeline after an operator is executed if and only
\* if the result of the last pipeline executed before it is 0 (after &&) or
\* non-zero (after ||); a pipeline that is not executed runs no process and no
\* built-in.  (A pipeline whose command cannot be built is not executed
\* whatever the operator says: C33 is about it.)
C1_ShortCircuit ==
    ao.pc = "done" =>
        \A s \in LaterStarts(ao.toks) :
            /\ (RanBefore(s) # {} /\ ~BuildFailed(s)) =>
                   (Executed(s) <=> ShortCircuitSaysRun(ao.toks, s))
            /\ ~Executed(s) =>
                   \A k \in 1..Len(log) : log[k].start = s => log[k].procs = <<>>

\* A list in which one pipeline was skipped and a later one was run.
C1_Witness ==
    /\ ao.pc = "done"
    /\ \E s1, s2 \in LaterStarts(ao.toks) :
          /\ s1 < s2
          /\ RanBefore(s1) # {}
          /\ ~Attempted(s1)
          /\ Executed(s2)
          /\ \E k \in 1..Len(log) : log[k].start = s2 /\ log[k].procs # <<>>

\* C2: execute_and_or_list returns the result of the last pipeline it
\* executed; the pipelines it skips do not change the returned value.
C2_ReturnsLastExecuted ==
    (ao.pc = "done" /\ RanBefore(Len(ao.toks) + 1) # {}) =>
        ao.last_result = LastResultBefore(Len(ao.toks) + 1)

\* The list ended with a skipped pipeline after a failed one.
C2_Witness ==
    /\ ao.pc = "done"
    /\ ao.last_result # 0
    /\ \E s \in LaterStarts(ao.toks) : ~Attempted(s) /\ RanBefore(s) # {}
    /\ Len(log) >= 2

----------------------------------------------------------------------------
(* execute_pipeline (execute.c 23-139), fd by fd and process by process.   *)
(* An fd table is a function from the open descriptors to what they refer  *)
(* to: the terminal, a redirection file, or one end of pipe number k.      *)

Tty         == <<"tty", 0>>
InFile      == <<"in", 0>>
OutFile     == <<"out", 0>>
ReadEnd(k)  == <<"r", k>>
WriteEnd(k) == <<"w", k>>

STDIN_FILENO  == 0
STDOUT_FILENO == 1
SIGINT  == 2
SIGTERM == 15
SIGTSTP == 20

SIGQUIT == 3

\* setup_signal_handlers, signals.c (part_004) 249-266: what the shell does
\* on SIGINT, SIGTSTP and SIGQUIT.  A child has the same after fork.
ShellDispositions ==
    [s \in {SIGINT, SIGTSTP, SIGQUIT} |->
        IF s = SIGQUIT THEN "ignore" ELSE "handler"]

\* signal(SIGINT, SIG_DFL); signal(SIGTSTP, SIG_DFL); signal(SIGQUIT, SIG_DFL)
\* in a child (execute.c 207-209 and 423-425).
ResetSignals(disp) == [s \in DOMAIN disp |-> "default"]

\* The descriptors a shell has when it starts a pipeline.
ShellFds == [fd \in {0, 1, 2} |-> Tty]

\* close(fd) for every fd in S; closing a descriptor that is not open fails
\* and changes nothing.
CloseAll(t, S) == [fd \in DOMAIN t \ S |-> t[fd]]

\* dup2(old, new).
Dup2(t, old, new) ==
    [fd \in DOMAIN t \cup {new} |-> IF fd = new THEN t[old] ELSE t[fd]]

\* The descriptor open() and pipe() hand out: the lowest one not in use.
LowestFree(t) == Min({n \in 0..Cardinality(DOMAIN t) : n \notin DOMAIN t})

\* open(file): the table with the new descriptor.
OpenFd(t, obj) == [fd \in DOMAIN t \cup {LowestFree(t)} |->
                      IF fd \in DOMAIN t THEN t[fd] ELSE obj]

\* dup2(open(file), target); close(the descriptor open returned).
Redirect(t, obj, target) ==
    CloseAll(Dup2(OpenFd(t, obj), LowestFree(t), target), {LowestFree(t)})

\* pipe(pipe_fds[k]): the read end, then the write end.
PipeRead(t)  == LowestFree(t)
PipeWrite(t) == LowestFree(OpenFd(t, Tty))
PipeFds(t, k) ==
    [fd \in DOMAIN t \cup {PipeRead(t), PipeWrite(t)} |->
        IF fd \in DOMAIN t THEN t[fd]
        ELSE IF fd = PipeRead(t) THEN ReadEnd(k) ELSE WriteEnd(k)]

\* Every descriptor number stored in pipe_fds[0 .. k-1].
PipeFdNumbers(pipe_fds, k) ==
    UNION {{pipe_fds[j][1], pipe_fds[j][2]} : j \in 1..k}

\* Lines 64-77 of the child: stdin of stage i (0-based) of n.
ChildStdin(t, i, pipe_fds, has_in) ==
    IF i = 0
    THEN IF has_in THEN Redirect(t, InFile, STDIN_FILENO) ELSE t
    ELSE Dup2(t, pipe_fds[i][1], STDIN_FILENO)

\* Lines 79-95 of the child: stdout of stage i of n.
ChildStdout(t, i, n, pipe_fds, has_out) ==
    IF i = n - 1
    THEN IF has_out THEN Redirect(t, OutFile, STDOUT_FILENO) ELSE t
    ELSE Dup2(t, pipe_fds[i + 1][2], STDOUT_FILENO)

\* (mutant) the child closes only the two pipe ends it uses.
ChildCloses_OwnEndsOnly(pipe_fds, i, n) ==
    (IF i > 0 THEN {pipe_fds[i][1]} ELSE {})
        \cup (IF i < n - 1 THEN {pipe_fds[i + 1][2]} ELSE {})

\* Lines 97-101 of the child: the descriptors it closes before it executes.
ChildCloses(pipe_fds, i, n) == PipeFdNumbers(pipe_fds, n - 1)

\* Lines 64-101: the fd table with which stage i executes its command.
ChildSetupFds(t, i, n, pipe_fds, has_in, has_out) ==
    CloseAll(ChildStdout(ChildStdin(t, i, pipe_fds, has_in),
                         i, n, pipe_fds, has_out),
             ChildCloses(pipe_fds, i, n))

\* A process: where it is, its fd table, and the status it ended with.
NoFds == [fd \in {} |-> Tty]
Proc(pc, fds, st) == [pc |-> pc, fds |-> fds, st |-> st]
NoProc == Proc("none", NoFds, 0)

\* The pid fork() returns for stage k (1-based); any positive number will do.
PidOf(k) == 100 + k

\* execute_pipeline(pipeline) is entered with command_count = n >= 2.
PipelineCall(n, has_in, has_out) ==
    [pc |-> "pipes", n |-> n, has_in |-> has_in, has_out |-> has_out,
     i |-> 0, pipe_fds |-> <<>>, fds |-> ShellFds,
     child |-> [k \in 1..n |-> NoProc], reported |-> <<>>,
     disp |-> [k \in 1..n |-> None],
     exit_status |-> SHELL_SUCCESS, ret |-> None]

\* What the children of a pipeline exit with, and the signal that kills them.
ExitCodes   == {0, 1, 3}
KillSignals == {SIGINT}

\* Lines 35-36, pipe() succeeds: pipe_fds[i] is filled in.
PipeOk ==
    /\ pp.pc = "pipes"
    /\ pp' = [pp EXCEPT
                !.fds = PipeFds(pp.fds, pp.i),
                !.pipe_fds = Append(pp.pipe_fds,
                                    <<PipeRead(pp.fds), PipeWrite(pp.fds)>>),
                !.i  = IF pp.i + 1 < pp.n - 1 THEN pp.i + 1 ELSE 0,
                !.pc = IF pp.i + 1 < pp.n - 1 THEN "pipes" ELSE "fork"]
    /\ UNCHANGED <<fs, ao, log, sc, rl, sh, bg, g>>

\* Lines 36-43, pipe() fails: the pipes made so far are closed.
PipeFail ==
    /\ pp.pc = "pipes"
    /\ pp' = [pp EXCEPT
                !.fds = CloseAll(pp.fds, PipeFdNumbers(pp.pipe_fds, pp.i)),
                !.pc  = "failed",
                !.ret = Some(SHELL_FAILURE)]
    /\ UNCHANGED <<fs, ao, log, sc, rl, sh, bg, g>>

\* Line 50, fork() succeeds: the child starts with a copy of the fd table.
ForkOk ==
    /\ pp.pc = "fork"
    /\ pp' = [pp EXCEPT
                !.child[pp.i + 1] = Proc("setup", pp.fds, 0),
                !.i  = pp.i + 1,
                !.pc = IF pp.i + 1 < pp.n THEN "fork" ELSE "close"]
    /\ UNCHANGED <<fs, ao, log, sc, rl, sh, bg, g>>

\* kill(pid, SIGTERM) on a child: it dies unless it has ended already or is
\* stopped (the signal then stays pending).
Killed(c) ==
    IF c.pc \in {"setup", "running"} THEN Proc("signaled", NoFds, SIGTERM)
    ELSE c

\* Lines 51-61, fork() fails: every pipe is closed, the children forked so
\* far are sent SIGTERM, and nobody waits for them.
ForkFail ==
    /\ pp.pc = "fork"
    /\ pp' = [pp EXCEPT
                !.fds = CloseAll(pp.fds, PipeFdNumbers(pp.pipe_fds, pp.n - 1)),
                !.child = [k \in 1..pp.n |->
                              IF k <= pp.i THEN Killed(pp.child[k])
                              ELSE pp.child[k]],
                !.pc  = "failed",
                !.ret = Some(SHELL_FAILURE)]
    /\ UNCHANGED <<fs, ao, log, sc, rl, sh, bg, g>>

\* Lines 63-101 in stage k (1-based): redirections, dup2, close.  The stage
\* goes on to its built-in or to execvp with the dispositions it got from
\* the shell at fork: no signal() call is made on the way.
ChildSetup(k) ==
    /\ pp.pc \notin {"idle"}
    /\ pp.child[k].pc = "setup"
    /\ pp' = [pp EXCEPT !.child[k] =
                Proc("running",
                     ChildSetupFds(pp.child[k].fds, k - 1, pp.n, pp.pipe_fds,
                                   pp.has_in, pp.has_out),
                     0),
                         !.disp[k] = Some(ShellDispositions)]
    /\ UNCHANGED <<fs, ao, log, sc, rl, sh, bg, g>>

\* Lines 68-71 and 86-89: open() of the redirection file fails in the child.
ChildOpenFails(k) ==
    /\ pp.pc \notin {"idle"}
    /\ pp.child[k].pc = "setup"
    /\ (k = 1 /\ pp.has_in) \/ (k = pp.n /\ pp.has_out)
    /\ pp' = [pp EXCEPT !.child[k] = Proc("exited", NoFds, SHELL_FAILURE)]
    /\ UNCHANGED <<fs, ao, log, sc, rl, sh, bg, g>>

\* Lines 104-111: the built-in returns, the program exits, or execvp fails
\* and the child exits with 127.
ChildExit(k) ==
    /\ pp.pc \notin {"idle"}
    /\ pp.child[k].pc = "running"
    /\ \E c \in ExitCodes \cup {127} :
          pp' = [pp EXCEPT !.child[k] = Proc("exited", NoFds, c)]
    /\ UNCHANGED <<fs, ao, log, sc, rl, sh, bg, g>>

\* The child is killed by a signal.
ChildSignaled(k) ==
    /\ pp.pc \notin {"idle"}
    /\ pp.child[k].pc = "running"
    /\ \E sig \in KillSignals :
          pp' = [pp EXCEPT !.child[k] = Proc("signaled", NoFds, sig)]
    /\ UNCHANGED <<fs, ao, log, sc, rl, sh, bg, g>>

\* The child is stopped (SIGTSTP); it keeps its descriptors.
ChildStop(k) ==
    /\ pp.pc \notin {"idle"}
    /\ pp.child[k].pc = "running"
    /\ pp' = [pp EXCEPT !.child[k].pc = "stopped", !.child[k].st = SIGTSTP]
    /\ UNCHANGED <<fs, ao, log, sc, rl, sh, bg, g>>

\* Lines 115-121: the parent closes every pipe and notes the last pid.
ParentClose ==
    /\ pp.pc = "close"
    /\ pp' = [pp EXCEPT
                !.fds = CloseAll(pp.fds, PipeFdNumbers(pp.pipe_fds, pp.n - 1)),
                !.i   = 0,
                !.pc  = "wait"]
    /\ g' = [g EXCEPT !.foreground_pid = PidOf(pp.n)]
    /\ UNCHANGED <<fs, ao, log, sc, rl, sh, bg>>

\* (mutant) the status of each stage replaces the one before it, so that the
\* last stage alone decides.
WaitStatus_LastStageDecides(exit_status, kind, st) ==
    IF kind = "exited" THEN st
    ELSE IF kind = "signaled" THEN 128 + st
    ELSE exit_status

\* (mutant) a stage killed by a signal leaves exit_status as it was.
WaitStatus_IgnoresSignals(exit_status, kind, st) ==
    IF kind = "exited" /\ st # 0 THEN st ELSE exit_status

\* Lines 126-133: exit_status after waitpid reported (kind, st) for a stage.
WaitStatus(exit_status, kind, st) ==
    IF kind = "exited" /\ st # 0 THEN st
    ELSE IF kind = "signaled" THEN 128 + st
    ELSE exit_status

\* waitpid reaps a child that has ended; a stopped child stays.
AfterWait(c) == IF c.pc = "stopped" THEN c ELSE Proc("reaped", NoFds, 0)

\* Lines 124-134, one iteration: waitpid(pids[i], &status, WUNTRACED) returns
\* once stage i has ended or stopped.
ParentWait ==
    /\ pp.pc = "wait"
    /\ pp.child[pp.i + 1].pc \in {"exited", "signaled", "stopped"}
    /\ pp' = [pp EXCEPT
                !.exit_status = WaitStatus(pp.exit_status,
                                           pp.child[pp.i + 1].pc,
                                           pp.child[pp.i + 1].st),
                !.reported = Append(pp.reported, <<pp.child[pp.i + 1].pc,
                                                   pp.child[pp.i + 1].st>>),
                !.child[pp.i + 1] = AfterWait(pp.child[pp.i + 1]),
                !.i  = pp.i + 1,
                !.pc = IF pp.i + 1 < pp.n THEN "wait" ELSE "return"]
    /\ UNCHANGED <<fs, ao, log, sc, rl, sh, bg, g>>

\* (mutant) the foreground pid is left as it is when the pipeline returns.
ParentReturn_KeepsForegroundPid ==
    /\ pp.pc = "return"
    /\ pp' = [pp EXCEPT !.pc = "done", !.ret = Some(pp.exit_status)]
    /\ g' = [g EXCEPT !.last_exit_status = pp.exit_status]
    /\ UNCHANGED <<fs, ao, log, sc, rl, sh, bg>>

\* Lines 136-138.
ParentReturn ==
    /\ pp.pc = "return"
    /\ pp' = [pp EXCEPT !.pc = "done", !.ret = Some(pp.exit_status)]
    /\ g' = [g EXCEPT !.foreground_pid = -1,
                      !.last_exit_status = pp.exit_status]
    /\ UNCHANGED <<fs, ao, log, sc, rl, sh, bg>>

----------------------------------------------------------------------------
(* SpecPipe: execute_pipeline on a pipeline of 2..MaxStages commands, the  *)
(* first with or without an input file, the last with or without an        *)
(* output file; pipe() and fork() may fail; the children run concurrently. *)

MaxStages == 3

InitPipe ==
    /\ \E n \in 2..MaxStages : \E has_in, has_out \in BOOLEAN :
          pp = PipelineCall(n, has_in, has_out)
    /\ fs = [exist |-> {}, nowrite |-> {}]
    /\ log = <<>>
    /\ ao = Idle /\ sc = Idle /\ rl = Idle /\ sh = Idle /\ bg = NoJobs
    /\ g = Globals

NextPipe ==
    \/ PipeOk
    \/ PipeFail
    \/ ForkOk
    \/ ForkFail
    \/ ParentClose
    \/ ParentWait
    \/ ParentReturn
    \/ \E k \in 1..pp.n : ChildSetup(k)
    \/ \E k \in 1..pp.n : ChildOpenFails(k)
    \/ \E k \in 1..pp.n : ChildExit(k)
    \/ \E k \in 1..pp.n : ChildSignaled(k)
    \/ \E k \in 1..pp.n : ChildStop(k)

SpecPipe == InitPipe /\ [][NextPipe]_vars

\* ---- who holds which pipe end

\* The processes of the pipeline that are alive: 0 is the shell, k is stage k.
LiveFds(k) ==
    IF k = 0 THEN pp.fds
    ELSE IF pp.child[k].pc \in {"setup", "running", "stopped"}
         THEN pp.child[k].fds
         ELSE NoFds

\* Every <<process, descriptor>> through which the pipe end is open.
Holders(end) ==
    {h \in (0..pp.n) \X (0..(2 * pp.n + 2)) :
        h[2] \in DOMAIN LiveFds(h[1]) /\ LiveFds(h[1])[h[2]] = end}

StageAlive(k) == pp.child[k].pc \in {"running", "stopped"}

PipeEnds == {ReadEnd(j) : j \in 0..(pp.n - 2)} \cup
            {WriteEnd(j) : j \in 0..(pp.n - 2)}

\* C3: once every stage of a pipeline of two or more commands has been
\* spawned and has set up its descriptors, the write end of pipe j is open
\* only as the standard output of stage j and the read end only as the
\* standard input of stage j+1 (stage numbers from 0; a stage that has ended
\* holds nothing), and the shell holds no pipe descriptor; when pipe() or
\* fork() fails the shell has closed every pipe descriptor it had opened.
C3_PipeEndsInOneProcess ==
    /\ (pp.pc \in {"wait", "return", "done"}
            /\ \A k \in 1..pp.n : pp.child[k].pc # "setup") =>
          \A j \in 0..(pp.n - 2) :
              /\ Holders(WriteEnd(j)) =
                    IF StageAlive(j + 1) THEN {<<j + 1, STDOUT_FILENO>>} ELSE {}
              /\ Holders(ReadEnd(j)) =
                    IF StageAlive(j + 2) THEN {<<j + 2, STDIN_FILENO>>} ELSE {}
    /\ pp.pc \in {"wait", "return", "done", "failed"} =>
          \A end \in PipeEnds : \A h \in Holders(end) : h[1] # 0

\* Every stage of the longest pipeline is running, the pipes connect them and
\* the shell waits.
C3_Witness ==
    /\ pp.pc = "wait"
    /\ pp.n = MaxStages
    /\ \A k \in 1..pp.n : pp.child[k].pc = "running"
    /\ \A j \in 0..(pp.n - 2) :
          /\ Holders(WriteEnd(j)) = {<<j + 1, STDOUT_FILENO>>}
          /\ Holders(ReadEnd(j)) = {<<j + 2, STDIN_FILENO>>}

\* The statuses waitpid reported, by kind.
ReportedAs(kinds) ==
    {k \in 1..Len(pp.reported) : pp.reported[k][1] \in kinds}
NonZeroExits ==
    {k \in ReportedAs({"exited"}) : pp.reported[k][2] # 0}

StageStatus(r) == IF r[1] = "signaled" THEN 128 + r[2] ELSE r[2]

LastStageExitedZero ==
    /\ pp.pc = "done"
    /\ Len(pp.reported) = pp.n
    /\ pp.reported[pp.n] = <<"exited", 0>>

\* The stages before the last that were killed or exited non-zero.
EarlierFailures ==
    {k \in ReportedAs({"signaled"}) \cup NonZeroExits : k < pp.n}

----------------------------------------------------------------------------
(* execute_single_command (execute.c 142-262) and setup_redirections /     *)
(* cleanup_fds (command.c 54-84).                                          *)

\* What argv[0] is to the shell: names with '=' after a first character are
\* assignments, the names of the built-in table are built-ins, the names on
\* PATH are programs and every other name makes execvp fail.
BuiltinNames == {<<"c", "d">>}
ProgramNames == {<<"a">>, <<"b">>}
IsAssignment(cmd) ==
    /\ cmd.argc = 1
    /\ \E k \in 2..Len(cmd.argv[1]) : cmd.argv[1][k] = "="
    /\ cmd.argv[1][1] # "="
is_builtin(name) == name \in BuiltinNames

\* setup_redirections: the descriptors it opens, or failure.  input_fd and
\* output_fd are 0 and 1 when there is no redirection.
InputOpens(cmd, f)  == cmd.input_file = None \/ cmd.input_file[1] \in f.exist
OutputOpens(cmd, f) == cmd.output_file = None \/ cmd.output_file[1] \notin f.nowrite

FdsWithInput(t, cmd) ==
    IF cmd.input_file = None THEN t ELSE OpenFd(t, InFile)
InputFd(t, cmd) ==
    IF cmd.input_file = None THEN STDIN_FILENO ELSE LowestFree(t)
OutputFd(t, cmd) ==
    IF cmd.output_file = None THEN STDOUT_FILENO
    ELSE LowestFree(FdsWithInput(t, cmd))
FdsWithOutput(t, cmd) ==
    IF cmd.output_file = None THEN t ELSE OpenFd(t, OutFile)

setup_redirections(st, cmd, f) ==
    IF ~InputOpens(cmd, f)
    THEN [st EXCEPT !.pc = "done", !.ret = Some(SHELL_FAILURE)]
    ELSE IF ~OutputOpens(cmd, f)
    THEN [st EXCEPT !.pc = "done", !.ret = Some(SHELL_FAILURE),
                    !.fds = CloseAll(FdsWithInput(st.fds, cmd),
                                     {InputFd(st.fds, cmd)} \ {STDIN_FILENO})]
    ELSE [st EXCEPT !.pc = "dispatch",
                    !.fds = FdsWithOutput(FdsWithInput(st.fds, cmd), cmd),
                    !.input_fd = InputFd(st.fds, cmd),
                    !.output_fd = OutputFd(st.fds, cmd)]

\* open(O_WRONLY | O_CREAT) creates the output file.
FsAfterSetup(cmd, f) ==
    IF InputOpens(cmd, f) /\ OutputOpens(cmd, f) /\ cmd.output_file # None
    THEN [f EXCEPT !.exist = @ \cup {cmd.output_file[1]}]
    ELSE f

\* (mutant) cleanup_fds forgets the output descriptor.
cleanup_fds_KeepsOutput(t, input_fd, output_fd) ==
    CloseAll(t, {input_fd} \ {STDIN_FILENO})

\* cleanup_fds(input_fd, output_fd).
cleanup_fds(t, input_fd, output_fd) ==
    CloseAll(t, {input_fd, output_fd} \ {STDIN_FILENO, STDOUT_FILENO})

\* dup2(input_fd, 0); close(input_fd); dup2(output_fd, 1); close(output_fd).
ApplyRedirections(t, input_fd, output_fd) ==
    cleanup_fds(Dup2(Dup2(t, input_fd, STDIN_FILENO), output_fd, STDOUT_FILENO),
                input_fd, output_fd)

\* execute_single_command(cmd) is entered.
SingleCall(cmd) ==
    [pc |-> "start", cmd |-> cmd, fds |-> ShellFds,
     input_fd |-> STDIN_FILENO, output_fd |-> STDOUT_FILENO,
     child |-> NoProc, reported |-> None, set |-> None, ret |-> None,
     disp |-> None]

SinglePid == PidOf(1)

\* Lines 143-148.
SingleStart ==
    /\ sc.pc = "start"
    /\ sc' = IF sc.cmd.argc = 0
             THEN [sc EXCEPT !.pc = "done", !.ret = Some(SHELL_FAILURE)]
             ELSE setup_redirections(sc, sc.cmd, fs)
    /\ fs' = IF sc.cmd.argc = 0 THEN fs ELSE FsAfterSetup(sc.cmd, fs)
    /\ UNCHANGED <<ao, log, pp, rl, sh, bg, g>>

\* Lines 150-161: VAR=value with no command.
SingleAssign ==
    /\ sc.pc = "dispatch"
    /\ IsAssignment(sc.cmd)
    /\ sc' = [sc EXCEPT !.pc = "done",
                        !.fds = cleanup_fds(sc.fds, sc.input_fd, sc.output_fd),
                        !.set = Some(sc.cmd.argv[1]),
                        !.ret = Some(SHELL_SUCCESS)]
    /\ g' = [g EXCEPT !.last_exit_status = 0]
    /\ UNCHANGED <<fs, ao, log, pp, rl, sh, bg>>

\* Lines 166-167 and 188-191 around a built-in: stdin and stdout are saved
\* with dup, redirected, and put back.
SavedStdin(t)  == LowestFree(t)
SavedStdout(t) == LowestFree(OpenFd(t, t[STDIN_FILENO]))
WithSaved(t)   == OpenFd(OpenFd(t, t[STDIN_FILENO]), t[STDOUT_FILENO])
Restored(t, saved_stdin, saved_stdout) ==
    CloseAll(Dup2(Dup2(t, saved_stdin, STDIN_FILENO), saved_stdout, STDOUT_FILENO),
             {saved_stdin, saved_stdout})
AroundBuiltin(t, input_fd, output_fd) ==
    Restored(ApplyRedirections(WithSaved(t), input_fd, output_fd),
             SavedStdin(t), SavedStdout(t))

\* Lines 164-195: a built-in runs in the shell and returns result.
SingleBuiltin ==
    /\ sc.pc = "dispatch"
    /\ ~IsAssignment(sc.cmd)
    /\ is_builtin(sc.cmd.argv[1])
    /\ \E result \in ExitCodes :
          /\ sc' = [sc EXCEPT !.pc = "done",
                              !.fds = AroundBuiltin(sc.fds, sc.input_fd, sc.output_fd),
                              !.ret = Some(result)]
          /\ g' = [g EXCEPT !.last_exit_status = result]
    /\ UNCHANGED <<fs, ao, log, pp, rl, sh, bg>>

\* Lines 166-167 when one dup or both fail: the descriptors that are held
\* after the two calls, and the numbers of those that succeeded.
DupsHeld(t, in_ok, out_ok) ==
    IF in_ok /\ out_ok THEN WithSaved(t)
    ELSE IF in_ok THEN OpenFd(t, t[STDIN_FILENO])
    ELSE IF out_ok THEN OpenFd(t, t[STDOUT_FILENO])
    ELSE t
DupsSaved(t, in_ok, out_ok) ==
    IF in_ok /\ out_ok THEN {SavedStdin(t), SavedStdout(t)}
    ELSE IF in_ok \/ out_ok THEN {LowestFree(t)}
    ELSE {}

\* Lines 169-175: dup fails.
SingleDupFails ==
    /\ sc.pc = "dispatch"
    /\ ~IsAssignment(sc.cmd)
    /\ is_builtin(sc.cmd.argv[1])
    /\ \E in_ok, out_ok \in BOOLEAN :
          /\ ~(in_ok /\ out_ok)
          /\ sc' = [sc EXCEPT
                      !.pc = "done",
                      !.fds = CloseAll(cleanup_fds(DupsHeld(sc.fds, in_ok, out_ok),
                                                   sc.input_fd, sc.output_fd),
                                       DupsSaved(sc.fds, in_ok, out_ok)),
                      !.ret = Some(SHELL_FAILURE)]
    /\ UNCHANGED <<fs, ao, log, pp, rl, sh, bg, g>>

IsExternal(cmd) == ~IsAssignment(cmd) /\ ~is_builtin(cmd.argv[1])

\* Lines 198-203: fork fails.
SingleForkFails ==
    /\ sc.pc = "dispatch"
    /\ IsExternal(sc.cmd)
    /\ sc' = [sc EXCEPT !.pc = "done",
                        !.fds = cleanup_fds(sc.fds, sc.input_fd, sc.output_fd),
                        !.ret = Some(SHELL_FAILURE)]
    /\ UNCHANGED <<fs, ao, log, pp, rl, sh, bg, g>>

\* Line 198: fork succeeds.
SingleFork ==
    /\ sc.pc = "dispatch"
    /\ IsExternal(sc.cmd)
    /\ sc' = [sc EXCEPT !.pc = "parent", !.child = Proc("setup", sc.fds, 0)]
    /\ UNCHANGED <<fs, ao, log, pp, rl, sh, bg, g>>

\* Lines 226-228 in the parent.
SingleParentCleanup ==
    /\ sc.pc = "parent"
    /\ sc' = [sc EXCEPT !.pc = "wait",
                        !.fds = cleanup_fds(sc.fds, sc.input_fd, sc.output_fd)]
    /\ g' = [g EXCEPT !.foreground_pid = SinglePid]
    /\ UNCHANGED <<fs, ao, log, pp, rl, sh, bg>>

\* Lines 205-223 in the child: signals to default, redirections, execvp; the
\* child exits with 127 when execvp fails.
SingleChildExec ==
    /\ sc.pc \in {"parent", "wait"}
    /\ sc.child.pc = "setup"
    /\ sc' = [sc EXCEPT !.child =
                IF sc.cmd.argv[1] \in ProgramNames
                THEN Proc("running",
                          ApplyRedirections(sc.child.fds, sc.input_fd, sc.output_fd),
                          0)
                ELSE Proc("exited", NoFds, 127),
                        !.disp = Some(ResetSignals(ShellDispositions))]
    /\ UNCHANGED <<fs, ao, log, pp, rl, sh, bg, g>>

\* The program exits.
SingleChildExit ==
    /\ sc.pc \in {"parent", "wait"}
    /\ sc.child.pc = "running"
    /\ \E c \in ExitCodes : sc' = [sc EXCEPT !.child = Proc("exited", NoFds, c)]
    /\ UNCHANGED <<fs, ao, log, pp, rl, sh, bg, g>>

\* The program is killed by a signal.
SingleChildSignaled ==
    /\ sc.pc \in {"parent", "wait"}
    /\ sc.child.pc = "running"
    /\ \E sig \in KillSignals \cup {SIGTERM} :
          sc' = [sc EXCEPT !.child = Proc("signaled", NoFds, sig)]
    /\ UNCHANGED <<fs, ao, log, pp, rl, sh, bg, g>>

\* The program is stopped.
SingleChildStop ==
    /\ sc.pc \in {"parent", "wait"}
    /\ sc.child.pc = "running"
    /\ sc' = [sc EXCEPT !.child.pc = "stopped", !.child.st = SIGTSTP]
    /\ UNCHANGED <<fs, ao, log, pp, rl, sh, bg, g>>

\* Lines 240-244: the words of the command joined by single spaces.
RECURSIVE JoinArgs(_)
JoinArgs(argv) ==
    IF Len(argv) = 0 THEN <<>>
    ELSE IF Len(argv) = 1 THEN argv[1]
    ELSE argv[1] \o <<" ">> \o JoinArgs(Tail(argv))

\* (mutant) a killed child is reported with the bare signal number.
SingleStatus_BareSignal(kind, st) ==
    IF kind = "exited" THEN st
    ELSE IF kind = "signaled" THEN st
    ELSE SHELL_FAILURE

\* Lines 251-258: exit_status from the status waitpid filled in.
SingleStatus(kind, st) ==
    IF kind = "exited" THEN st
    ELSE IF kind = "signaled" THEN 128 + st
    ELSE SHELL_FAILURE

\* Lines 260-261 (and 247-248 for a stopped child): what is returned and what
\* goes to update_exit_status.
SingleReturns(kind, st) ==
    IF kind = "stopped" THEN SHELL_SUCCESS ELSE SingleStatus(kind, st)

\* (mutant) a stopped child is given the status of an unknown outcome.
SingleExitStatus_StoppedAsFailure(kind, st) ==
    SingleStatus(kind, st)

SingleExitStatus(kind, st) ==
    IF kind = "stopped" THEN 148 ELSE SingleStatus(kind, st)

\* Lines 230-261: waitpid(pid, &status, WUNTRACED) returns once the child has
\* ended or stopped; a stopped child becomes a job.
SingleWait ==
    /\ sc.pc = "wait"
    /\ sc.child.pc \in {"exited", "signaled", "stopped"}
    /\ sc' = [sc EXCEPT
                !.pc = "done",
                !.reported = Some(<<sc.child.pc, sc.child.st>>),
                !.child = AfterWait(sc.child),
                !.ret = Some(SingleReturns(sc.child.pc, sc.child.st))]
    /\ g' = [g EXCEPT
                !.foreground_pid = -1,
                !.last_exit_status = SingleExitStatus(sc.child.pc, sc.child.st)]
    /\ bg' = IF sc.child.pc = "stopped"
             THEN add_background_job(bg, SinglePid, JoinArgs(sc.cmd.argv),
                                     PROCESS_STOPPED)
             ELSE bg
    /\ UNCHANGED <<fs, ao, log, pp, rl, sh>>

\* Lines 230-234: waitpid fails; nothing is reaped and the command returns
\* SHELL_FAILURE.
SingleWaitFails ==
    /\ sc.pc = "wait"
    /\ sc' = [sc EXCEPT !.pc = "done", !.ret = Some(SHELL_FAILURE)]
    /\ g' = [g EXCEPT !.foreground_pid = -1]
    /\ UNCHANGED <<fs, ao, log, pp, rl, sh, bg>>

----------------------------------------------------------------------------
(* SpecSingle: execute_single_command on one command: a program, a name    *)
(* that is not on PATH, a built-in, an assignment or no word at all, with  *)
(* and without redirections, in every state of the file system.            *)

Cmd(argv, input_file, output_file) ==
    [argv |-> argv, argc |-> Len(argv), input_file |-> input_file,
     output_file |-> output_file, append_output |-> 0]

SingleArgvs ==
    { <<>>, <<<<"a">>>>, <<<<"a">>, <<"b">>>>, <<<<"x">>>>, <<<<"c", "d">>>>,
      <<<<"v", "=", "b">>>> }

\* The job table when the command starts: empty in a fresh shell, or with
\* job 2 left after job 1 was removed.
JobTables ==
    { NoJobs,
      [pc |-> "idle",
       jobs |-> <<Job(PidOf(7), 2, <<"b">>, PROCESS_RUNNING)>>,
       next_job_id |-> 3] }

InitSingle ==
    /\ fs \in FsStates
    /\ \E argv \in SingleArgvs :
       \E input_file, output_file \in {None} \cup {Some(n) : n \in FileNames} :
          sc = SingleCall(Cmd(argv, input_file, output_file))
    /\ log = <<>>
    /\ ao = Idle /\ pp = Idle /\ rl = Idle /\ sh = Idle
    /\ bg \in JobTables
    /\ g = Globals

NextSingle ==
    \/ SingleStart
    \/ SingleAssign
    \/ SingleBuiltin
    \/ SingleDupFails
    \/ SingleForkFails
    \/ SingleFork
    \/ SingleParentCleanup
    \/ SingleChildExec
    \/ SingleChildExit
    \/ SingleChildSignaled
    \/ SingleChildStop
    \/ SingleWait
    \/ SingleWaitFails

SpecSingle == InitSingle /\ [][NextSingle]_vars

\* C9: when a single foreground external command ends, the value
\* execute_single_command returns and $? are the child's exit status if it
\* exited, 128 + N if signal N killed it, and 127 if exec did not find the
\* program; the child has been reaped by then.
C9_ForegroundStatus ==
    (sc.pc = "done" /\ sc.reported # None
        /\ sc.reported[1][1] \in {"exited", "signaled"}) =>
        /\ sc.ret = Some(IF sc.reported[1][1] = "exited"
                         THEN sc.reported[1][2]
                         ELSE 128 + sc.reported[1][2])
        /\ g.last_exit_status = sc.ret[1]
        /\ sc.child.pc = "reaped"
        /\ sc.cmd.argv[1] \notin ProgramNames => sc.ret = Some(127)

\* A program with redirected input was killed by SIGTERM and the shell
\* returned 143.
C9_Witness ==
    /\ sc.pc = "done"
    /\ sc.cmd.input_file # None
    /\ sc.reported = Some(<<"signaled", SIGTERM>>)
    /\ sc.ret = Some(128 + SIGTERM)
    /\ g.last_exit_status = 128 + SIGTERM
    /\ sc.child.pc = "reaped"

\* The child of the command was reported as stopped.
SingleStopped ==
    /\ sc.pc = "done"
    /\ sc.reported # None
    /\ sc.reported[1][1] = "stopped"

C13_StatusFollowsResult ==
    (sc.pc = "done" /\ sc.cmd.argc > 0) => g.last_exit_status = sc.ret[1]

----------------------------------------------------------------------------
(* shell_readline and its editor (readline.c).  `line` is the sequence of  *)
(* the first line_length characters of line_buffer and `end_byte` is the   *)
(* byte at line_buffer[line_length].                                       *)

NUL == "NUL"

\* Scaled down: readline.c has LINE_BUFFER_SIZE 4096.
LINE_BUFFER_SIZE == 3

\* The termios flags enable_raw_mode clears, and the one it sets.
RawCleared == {"BRKINT", "ICRNL", "INPCK", "ISTRIP", "IXON", "OPOST",
               "ECHO", "ICANON", "IEXTEN", "ISIG"}
Termios(flags, vmin, vtime) == [flags |-> flags, vmin |-> vmin, vtime |-> vtime]
RawOf(t) == Termios((t.flags \ RawCleared) \cup {"CS8"}, 1, 0)

\* enable_raw_mode with the outcome of its system calls: "ok", or the call
\* that fails.
enable_raw_mode(e, outcome) ==
    IF e.raw_mode_enabled = 1 THEN e
    ELSE IF ~e.isatty THEN e
    ELSE IF outcome = "tcgetattr" THEN e
    ELSE IF outcome = "tcsetattr" THEN [e EXCEPT !.orig_termios = e.term]
    ELSE [e EXCEPT !.orig_termios = e.term,
                   !.term = RawOf(e.term),
                   !.raw_mode_enabled = 1,
                   !.was_raw = TRUE]

\* (mutant) the flag is cleared but the terminal is left as it is.
disable_raw_mode_FlagOnly(e) ==
    IF e.raw_mode_enabled = 0 THEN e
    ELSE [e EXCEPT !.raw_mode_enabled = 0]

disable_raw_mode(e) ==
    IF e.raw_mode_enabled = 0 THEN e
    ELSE [e EXCEPT !.term = e.orig_termios, !.raw_mode_enabled = 0]

\* shell_readline returns: the value and the key that ended the call.
Returns(e, value, via) == [e EXCEPT !.pc = "returned", !.ret = value, !.via = via]

\* (mutant) the character is inserted while the buffer has a byte left, the
\* one of the terminator included.
insert_char_UsesLastByte(e, c) ==
    IF Len(e.line) >= LINE_BUFFER_SIZE THEN e
    ELSE [e EXCEPT
            !.line = SubSeq(e.line, 1, e.cursor_pos) \o <<c>>
                        \o SubSeq(e.line, e.cursor_pos + 1, Len(e.line)),
            !.cursor_pos = e.cursor_pos + 1,
            !.end_byte = NUL]

insert_char(e, c) ==
    IF Len(e.line) >= LINE_BUFFER_SIZE - 1 THEN e
    ELSE [e EXCEPT
            !.line = SubSeq(e.line, 1, e.cursor_pos) \o <<c>>
                        \o SubSeq(e.line, e.cursor_pos + 1, Len(e.line)),
            !.cursor_pos = e.cursor_pos + 1,
            !.end_byte = NUL]

delete_char(e) ==
    IF e.cursor_pos < Len(e.line)
    THEN [e EXCEPT !.line = SubSeq(e.line, 1, e.cursor_pos)
                               \o SubSeq(e.line, e.cursor_pos + 2, Len(e.line)),
                   !.end_byte = NUL]
    ELSE e

backspace_char(e) ==
    IF e.cursor_pos > 0
    THEN delete_char([e EXCEPT !.cursor_pos = e.cursor_pos - 1])
    ELSE e

\* strncpy(line_buffer, hist, LINE_BUFFER_SIZE - 1).
Truncated(str) ==
    SubSeq(str, 1, IF Len(str) < LINE_BUFFER_SIZE - 1 THEN Len(str)
                   ELSE LINE_BUFFER_SIZE - 1)

\* index counts back from the newest entry, which is index 0.  line_length
\* is strlen(line_buffer), so the byte there is the NUL.
set_line_from_history(e, index) ==
    IF index < 0 \/ index >= Len(e.history) THEN e
    ELSE [e EXCEPT
            !.line = Truncated(e.history[Len(e.history) - index]),
            !.cursor_pos = Len(Truncated(e.history[Len(e.history) - index])),
            !.end_byte = NUL]

\* Lines 233-251: the line state is reset at every call.
ReadlineEntry(e) ==
    [e EXCEPT !.line = <<>>, !.cursor_pos = 0, !.end_byte = NUL,
              !.history_index = Len(e.history),
              !.pre = e.term, !.was_raw = FALSE, !.ret = None, !.via = "none"]

\* One step of the editor: only rl changes.
RlStep(e) ==
    /\ rl' = e
    /\ UNCHANGED <<fs, ao, log, pp, sc, sh, bg, g>>

\* Lines 253-263: standard input is not a terminal, fgets reads a line (the
\* trailing newline is removed) or reports end of input.
ReadlineNonTty ==
    /\ rl.pc = "call"
    /\ ~rl.isatty
    /\ \E got \in {None} \cup {Some(l) : l \in {<<>>, <<"a">>}} :
          RlStep(Returns(ReadlineEntry(rl), got, "fgets"))

\* Lines 265-268: the prompt is written and raw mode is asked for.
ReadlineStart ==
    /\ rl.pc = "call"
    /\ rl.isatty
    /\ \E outcome \in {"ok", "tcgetattr", "tcsetattr"} :
          RlStep([enable_raw_mode(ReadlineEntry(rl), outcome)
                     EXCEPT !.pc = "reading"])

\* Lines 273-276: read fails.
KeyReadError ==
    /\ rl.pc = "reading"
    /\ RlStep(Returns(disable_raw_mode(rl), None, "error"))

\* Lines 279-284: KEY_ENTER, KEY_CTRL_J.
KeyEnter ==
    /\ rl.pc = "reading"
    /\ RlStep(Returns(disable_raw_mode(rl), Some(rl.line), "enter"))

\* Lines 286-294: KEY_CTRL_D.
KeyCtrlD ==
    /\ rl.pc = "reading"
    /\ RlStep(IF Len(rl.line) = 0
              THEN Returns(disable_raw_mode(rl), None, "ctrl_d")
              ELSE delete_char(rl))

\* line_buffer[0] = '\0': line_length and cursor_pos stay as they are.
ClearFirstByte(e) ==
    IF Len(e.line) = 0 THEN [e EXCEPT !.end_byte = NUL]
    ELSE [e EXCEPT !.line[1] = NUL]

\* Lines 296-300: KEY_CTRL_C.
KeyCtrlC ==
    /\ rl.pc = "reading"
    /\ RlStep(Returns(disable_raw_mode(ClearFirstByte(rl)), Some(<<>>), "ctrl_c"))

\* Lines 302-306: KEY_BACKSPACE, KEY_CTRL_H.
KeyBackspace ==
    /\ rl.pc = "reading"
    /\ RlStep(backspace_char(rl))

\* Lines 308-311: KEY_DELETE.
KeyDelete ==
    /\ rl.pc = "reading"
    /\ RlStep(delete_char(rl))

\* Lines 313-319: KEY_ARROW_LEFT, KEY_CTRL_B.
KeyLeft ==
    /\ rl.pc = "reading"
    /\ RlStep(IF rl.cursor_pos > 0
              THEN [rl EXCEPT !.cursor_pos = rl.cursor_pos - 1] ELSE rl)

\* Lines 321-327: KEY_ARROW_RIGHT, KEY_CTRL_F.
KeyRight ==
    /\ rl.pc = "reading"
    /\ RlStep(IF rl.cursor_pos < Len(rl.line)
              THEN [rl EXCEPT !.cursor_pos = rl.cursor_pos + 1] ELSE rl)

\* Lines 330-337: KEY_ARROW_UP, KEY_CTRL_P.
KeyUp ==
    /\ rl.pc = "reading"
    /\ RlStep(IF rl.history_index > 0
              THEN set_line_from_history(
                       [rl EXCEPT !.history_index = rl.history_index - 1],
                       Len(rl.history) - 1 - (rl.history_index - 1))
              ELSE rl)

\* Lines 339-352: KEY_ARROW_DOWN, KEY_CTRL_N.
KeyDown ==
    /\ rl.pc = "reading"
    /\ RlStep(IF rl.history_index >= Len(rl.history) THEN rl
              ELSE IF rl.history_index + 1 = Len(rl.history)
              THEN [rl EXCEPT !.history_index = rl.history_index + 1,
                              !.line = <<>>, !.cursor_pos = 0, !.end_byte = NUL]
              ELSE set_line_from_history(
                       [rl EXCEPT !.history_index = rl.history_index + 1],
                       Len(rl.history) - 1 - (rl.history_index + 1)))

\* Lines 354-364: KEY_HOME, KEY_CTRL_A and KEY_END, KEY_CTRL_E.
KeyHome ==
    /\ rl.pc = "reading"
    /\ RlStep([rl EXCEPT !.cursor_pos = 0])

KeyEnd ==
    /\ rl.pc = "reading"
    /\ RlStep([rl EXCEPT !.cursor_pos = Len(rl.line)])

\* Lines 366-375: KEY_CTRL_K, kill to the end of the line.
KeyCtrlK ==
    /\ rl.pc = "reading"
    /\ RlStep(IF rl.cursor_pos < Len(rl.line)
              THEN [rl EXCEPT
                      !.kill = SubSeq(rl.line, rl.cursor_pos + 1, Len(rl.line)),
                      !.line = SubSeq(rl.line, 1, rl.cursor_pos),
                      !.end_byte = NUL]
              ELSE rl)

\* Lines 377-387: KEY_CTRL_U, kill to the beginning of the line.  The
\* memmove takes the byte at line_buffer[line_length] along, here as in
\* Ctrl-W and in the completion.
KeyCtrlU ==
    /\ rl.pc = "reading"
    /\ RlStep(IF rl.cursor_pos > 0
              THEN [rl EXCEPT
                      !.kill = SubSeq(rl.line, 1, rl.cursor_pos),
                      !.line = SubSeq(rl.line, rl.cursor_pos + 1, Len(rl.line)),
                      !.cursor_pos = 0]
              ELSE rl)

\* The two loops of lines 393-394: back over spaces, then back over a word.
BackOver(line, pos, spaces) ==
    Min({k \in 0..pos : \A j \in (k + 1)..pos : (line[j] = " ") = spaces})
WordStartBefore(line, pos) ==
    BackOver(line, BackOver(line, pos, TRUE), FALSE)

KillWord(e, from) ==
    [e EXCEPT !.kill = SubSeq(e.line, from + 1, e.cursor_pos),
              !.line = SubSeq(e.line, 1, from)
                          \o SubSeq(e.line, e.cursor_pos + 1, Len(e.line)),
              !.cursor_pos = from]

\* Lines 389-404: KEY_CTRL_W, kill the previous word.
KeyCtrlW ==
    /\ rl.pc = "reading"
    /\ RlStep(IF rl.cursor_pos > 0
              THEN KillWord(rl, WordStartBefore(rl.line, rl.cursor_pos))
              ELSE rl)

\* Lines 409-411: insert_char for every character of the kill buffer.
RECURSIVE InsertAll(_, _)
InsertAll(e, str) ==
    IF Len(str) = 0 THEN e
    ELSE InsertAll(insert_char(e, Head(str)), Tail(str))

\* Lines 406-414: KEY_CTRL_Y, yank.
KeyCtrlY ==
    /\ rl.pc = "reading"
    /\ RlStep(InsertAll(rl, rl.kill))

\* Lines 423-432: KEY_CTRL_T, transpose.
KeyCtrlT ==
    /\ rl.pc = "reading"
    /\ RlStep(IF rl.cursor_pos > 0 /\ rl.cursor_pos < Len(rl.line)
              THEN [rl EXCEPT
                      !.line[rl.cursor_pos] = rl.line[rl.cursor_pos + 1],
                      !.line[rl.cursor_pos + 1] = rl.line[rl.cursor_pos],
                      !.cursor_pos = rl.cursor_pos + 1]
              ELSE rl)

\* Lines 416-421 and 519-522: KEY_CTRL_L redraws, KEY_CTRL_R and the keys
\* without a case (KEY_ESCAPE, KEY_PAGE_UP, ...) change nothing.
KeyNoEffect ==
    /\ rl.pc = "reading"
    /\ RlStep(rl)

\* What can be typed.
EditChars == {"a", " "}

\* Lines 524-529: a printable character.
KeyChar ==
    /\ rl.pc = "reading"
    /\ \E c \in EditChars : RlStep(insert_char(rl, c))

\* Lines 438-444: the start of the word the cursor is in or after.
CompletionWordStart(e) == BackOver(e.line, e.cursor_pos, FALSE)

\* Lines 452-458 and 480-487: the word is replaced by str when the new line
\* fits the buffer.
ReplaceWord(e, word_start, str) ==
    IF Len(e.line) - (e.cursor_pos - word_start) + Len(str) < LINE_BUFFER_SIZE
    THEN [e EXCEPT
            !.line = SubSeq(e.line, 1, word_start) \o str
                        \o SubSeq(e.line, e.cursor_pos + 1, Len(e.line)),
            !.cursor_pos = word_start + Len(str)]
    ELSE e

\* Lines 460-470: a space follows a completion that is not a directory.
SpaceAfter(e, before, str) ==
    IF e # before /\ str[Len(str)] # "/" THEN insert_char(e, " ") ELSE e

\* Lines 446-471: exactly one completion.
CompleteSingle(e, str) ==
    SpaceAfter(ReplaceWord(e, CompletionWordStart(e), str), e, str)

\* Lines 472-488: several completions with a common prefix; when the prefix
\* is no longer than the word they are only listed.
CompleteCommon(e, prefix) ==
    IF Len(prefix) > e.cursor_pos - CompletionWordStart(e)
    THEN ReplaceWord(e, CompletionWordStart(e), prefix)
    ELSE e

\* get_word_to_complete (completion.c 91-121): the word that is completed
\* starts after the last blank, |, ; or & before the cursor.
get_word_to_complete(line, cursor) ==
    Min({k \in 0..cursor :
            \A j \in (k + 1)..cursor : line[j] \notin {" ", "\t", "|", ";", "&"}})
CompletionWord(e) ==
    SubSeq(e.line, get_word_to_complete(e.line, e.cursor_pos) + 1, e.cursor_pos)

\* What get_completions can answer for that word: the word extended to a
\* file or a directory name.
CompletionsFor(e) ==
    {CompletionWord(e) \o <<"a">>, CompletionWord(e) \o <<"a", "/">>}

\* Lines 434-517: KEY_TAB.
KeyTab ==
    /\ rl.pc = "reading"
    /\ \/ RlStep(rl)
       \/ \E str \in CompletionsFor(rl) : RlStep(CompleteSingle(rl, str))
       \/ \E prefix \in CompletionsFor(rl) \cup {CompletionWord(rl)} :
             RlStep(CompleteCommon(rl, prefix))

\* shell_readline is called again by the loop of main.
ReadlineAgain ==
    /\ rl.pc = "returned"
    /\ RlStep([rl EXCEPT !.pc = "call"])

----------------------------------------------------------------------------
(* SpecReadline: calls of shell_readline, one after the other, on a        *)
(* terminal or not, fed every sequence of keys, with a history of up to    *)
(* two lines.                                                              *)

TermStates ==
    { Termios({"BRKINT", "ICRNL", "IXON", "OPOST", "ECHO", "ICANON",
               "IEXTEN", "ISIG"}, 1, 0),
      Termios({"OPOST", "ICANON", "ISIG", "CS8"}, 4, 1) }

HistoryMenu == { <<>>, <<<<"a">>>>, <<<<"a", " ", "a", " ", "a">>, <<" ", "a">>>> }

ReadlineInit(isatty, term, history) ==
    [pc |-> "call", isatty |-> isatty, term |-> term, pre |-> term,
     orig_termios |-> Termios({}, 0, 0), raw_mode_enabled |-> 0,
     was_raw |-> FALSE, line |-> <<>>, cursor_pos |-> 0, kill |-> <<>>,
     history |-> history, history_index |-> 0, ret |-> None, via |-> "none",
     end_byte |-> NUL]

InitReadline ==
    /\ \E isatty \in BOOLEAN : \E term \in TermStates :
       \E history \in HistoryMenu :
          rl = ReadlineInit(isatty, term, history)
    /\ fs = [exist |-> {}, nowrite |-> {}]
    /\ log = <<>>
    /\ ao = Idle /\ pp = Idle /\ sc = Idle /\ sh = Idle /\ bg = NoJobs
    /\ g = Globals

NextReadline ==
    \/ ReadlineNonTty
    \/ ReadlineStart
    \/ ReadlineAgain
    \/ KeyReadError
    \/ KeyEnter
    \/ KeyCtrlD
    \/ KeyCtrlC
    \/ KeyBackspace
    \/ KeyDelete
    \/ KeyLeft
    \/ KeyRight
    \/ KeyUp
    \/ KeyDown
    \/ KeyHome
    \/ KeyEnd
    \/ KeyCtrlK
    \/ KeyCtrlU
    \/ KeyCtrlW
    \/ KeyCtrlY
    \/ KeyCtrlT
    \/ KeyTab
    \/ KeyNoEffect
    \/ KeyChar

SpecReadline == InitReadline /\ [][NextReadline]_vars

\* C4: whenever shell_readline has returned (by Enter or Ctrl-J, by Ctrl-D on
\* an empty line, by Ctrl-C, or by a read error) raw mode is disabled and the
\* terminal attributes are the ones the terminal had before the call.
C4_TerminalRestored ==
    rl.pc = "returned" => rl.raw_mode_enabled = 0 /\ rl.term = rl.pre

\* Raw mode was entered, text was typed, and the call ended by Ctrl-C.
C4_Witness ==
    /\ rl.pc = "returned"
    /\ rl.via = "ctrl_c"
    /\ rl.was_raw
    /\ rl.term # RawOf(rl.pre)
    /\ rl.kill # <<>>

----------------------------------------------------------------------------
(* execute_background_command (execute.c 401-454) and the job table        *)
(* (background.c).  bg.procs holds the children of the shell by pid.       *)

\* A child as waitpid sees it: st is "running", "stopped", "exited" or
\* "signaled"; told says whether a stop has been reported already.
Child(st, code, told) == [st |-> st, code |-> code, told |-> told]

\* Lines 402-406: the token values joined by single spaces.
RECURSIVE JoinTokens(_)
JoinTokens(toks) ==
    IF Len(toks) = 0 THEN <<>>
    ELSE IF Len(toks) = 1 THEN toks[1].value
    ELSE toks[1].value \o <<" ">> \o JoinTokens(Tail(toks))

\* What waitpid(pid, &status, WNOHANG | WUNTRACED) returns for a job: "pid"
\* with a status, "zero" when nothing has changed, "error" when the shell has
\* no such child.
WaitNoHang(procs, pid) ==
    IF pid \notin DOMAIN procs THEN "error"
    ELSE IF procs[pid].st \in {"exited", "signaled"} THEN procs[pid].st
    ELSE IF procs[pid].st = "stopped" /\ ~procs[pid].told THEN "stopped"
    ELSE "zero"

\* The job after check_background_jobs has looked at it: <<>> if removed.
JobChecked(job, w) ==
    IF w \in {"exited", "signaled", "error"} THEN <<>>
    ELSE IF w = "stopped" THEN <<[job EXCEPT !.status = PROCESS_STOPPED]>>
    ELSE <<job>>

RECURSIVE JobsChecked(_, _)
JobsChecked(jobs, procs) ==
    IF Len(jobs) = 0 THEN <<>>
    ELSE JobChecked(Head(jobs), WaitNoHang(procs, Head(jobs).pid))
            \o JobsChecked(Tail(jobs), procs)

\* The children after the waitpid calls of check_background_jobs: the ended
\* ones are reaped, a stop is reported once.
ProcsChecked(jobs, procs) ==
    [p \in {q \in DOMAIN procs :
               ~\E k \in 1..Len(jobs) :
                    jobs[k].pid = q /\ procs[q].st \in {"exited", "signaled"}}
       |-> IF \E k \in 1..Len(jobs) : jobs[k].pid = p
           THEN [procs[p] EXCEPT !.told = (procs[p].st = "stopped")]
           ELSE procs[p]]

\* Lines 41-46: the only printf calls of check_background_jobs are those for
\* a job that has exited; w is what waitpid reported.
JobSaid(w, code) ==
    IF w = "exited"
    THEN IF code = 0 THEN Some("exited normally") ELSE Some("exited abnormally")
    ELSE None

\* One run of check_background_jobs, job by job: what waitpid reported and
\* what was printed.
DrainReport(jobs, procs) ==
    [k \in 1..Len(jobs) |->
        [pid  |-> jobs[k].pid,
         w    |-> WaitNoHang(procs, jobs[k].pid),
         said |-> JobSaid(WaitNoHang(procs, jobs[k].pid),
                          IF jobs[k].pid \in DOMAIN procs
                          THEN procs[jobs[k].pid].code ELSE 0)]]

\* check_background_jobs(), lines 32-74 of background.c.
check_background_jobs(b) ==
    [b EXCEPT !.jobs = JobsChecked(b.jobs, b.procs),
              !.procs = ProcsChecked(b.jobs, b.procs),
              !.drain = DrainReport(b.jobs, b.procs)]

\* find_job_by_id: the first entry with that job_id, None if there is none.
find_job_by_id(jobs, job_id) ==
    IF \E k \in 1..Len(jobs) : jobs[k].job_id = job_id
    THEN Some(jobs[Min({k \in 1..Len(jobs) : jobs[k].job_id = job_id})])
    ELSE None

\* remove_job_by_pid: the first entry with that pid is unlinked and freed.
remove_job_by_pid(jobs, pid) ==
    IF \E k \in 1..Len(jobs) : jobs[k].pid = pid
    THEN SubSeq(jobs, 1, Min({k \in 1..Len(jobs) : jobs[k].pid = pid}) - 1)
         \o SubSeq(jobs, Min({k \in 1..Len(jobs) : jobs[k].pid = pid}) + 1,
                   Len(jobs))
    ELSE jobs

\* The command put in the background: a pipeline.
BgMenu == { <<W("a"), Tok("PIPE", <<"|">>), W("b")>> }

\* How many children the shell starts in a run of SpecBg.
MaxChildren == 2

\* builtin_fg is called at most MaxFgCalls times.
MaxFgCalls == 1

\* One step of the job machinery that leaves the globals alone.
BgStep(b) ==
    /\ bg' = b
    /\ UNCHANGED <<fs, ao, log, pp, sc, rl, sh, g>>

\* Lines 402-408: the command string is built and fork succeeds; the
\* supervisor child runs from now on.
BgFork ==
    /\ bg.pc = "prompt"
    /\ bg.forks < MaxChildren
    /\ \E toks \in BgMenu :
          BgStep([bg EXCEPT
                    !.pc = "bg_forked",
                    !.forks = bg.forks + 1,
                    !.before = Len(bg.jobs),
                    !.cur = [pid |-> PidOf(bg.forks + 1),
                             command |-> JoinTokens(toks),
                             disp |-> Some(ResetSignals(ShellDispositions))],
                    !.procs = [p \in DOMAIN bg.procs \cup {PidOf(bg.forks + 1)} |->
                                  IF p \in DOMAIN bg.procs THEN bg.procs[p]
                                  ELSE Child("running", 0, FALSE)]])

\* Lines 408-412: fork fails.
BgForkFails ==
    /\ bg.pc = "prompt"
    /\ BgStep([bg EXCEPT !.pc = "bg_failed", !.ret = Some(SHELL_FAILURE)])

\* Lines 450-453 in the parent.
BgRegister ==
    /\ bg.pc = "bg_forked"
    /\ bg' = [add_background_job(bg, bg.cur.pid, bg.cur.command, PROCESS_RUNNING)
                 EXCEPT !.pc = "bg_returned", !.ret = Some(SHELL_SUCCESS)]
    /\ g' = [g EXCEPT !.last_background_pid = bg.cur.pid]
    /\ UNCHANGED <<fs, ao, log, pp, sc, rl, sh>>

\* The caller goes on; the loop of main is back at its top.
BgResume ==
    /\ bg.pc \in {"bg_returned", "bg_failed"}
    /\ BgStep([bg EXCEPT !.pc = "prompt", !.ret = None, !.before = 0,
                         !.cur = [pid |-> 0, command |-> <<>>, disp |-> None]])

\* execute_single_command, lines 239-248: a foreground child was stopped and
\* becomes a job.
FgStopped ==
    /\ bg.pc = "prompt"
    /\ bg.forks < MaxChildren
    /\ bg' = [add_background_job(bg, PidOf(bg.forks + 1), <<"a">>, PROCESS_STOPPED)
                 EXCEPT !.forks = bg.forks + 1,
                        !.procs = [p \in DOMAIN bg.procs \cup {PidOf(bg.forks + 1)} |->
                                      IF p \in DOMAIN bg.procs THEN bg.procs[p]
                                      ELSE Child("stopped", SIGTSTP, TRUE)]]
    /\ g' = [g EXCEPT !.last_exit_status = 148]
    /\ UNCHANGED <<fs, ao, log, pp, sc, rl, sh>>

\* (mutant) the jobs are also checked while fg waits for its job.
CheckJobs_WhileWaiting ==
    /\ bg.pc \in {"prompt", "fg_wait"}
    /\ BgStep([check_background_jobs(bg) EXCEPT !.pc = "checked"])

\* main.c line 57: check_background_jobs() at the top of the loop.
CheckJobs ==
    /\ bg.pc = "prompt"
    /\ BgStep([check_background_jobs(bg) EXCEPT !.pc = "checked"])

\* check_background_jobs has returned; what it printed is on the terminal.
CheckReturn ==
    /\ bg.pc = "checked"
    /\ BgStep([bg EXCEPT !.pc = "prompt", !.drain = <<>>])

\* A child of the shell exits or is killed.
BgChildEnds ==
    /\ bg.pc \notin {"idle", "checked"}
    /\ \E p \in DOMAIN bg.procs :
          /\ bg.procs[p].st = "running"
          /\ \E c \in {Child("exited", 0, FALSE), Child("exited", 1, FALSE),
                       Child("signaled", SIGTERM, FALSE)} :
                BgStep([bg EXCEPT !.procs[p] = c])

\* A child of the shell is stopped by a signal.
BgChildStops ==
    /\ bg.pc \notin {"idle", "checked"}
    /\ \E p \in DOMAIN bg.procs :
          /\ bg.procs[p].st = "running"
          /\ BgStep([bg EXCEPT !.procs[p] = Child("stopped", SIGTSTP, FALSE)])

\* A stopped child is continued (SIGCONT).
BgChildContinues ==
    /\ bg.pc \notin {"idle", "checked"}
    /\ \E p \in DOMAIN bg.procs :
          /\ bg.procs[p].st = "stopped"
          /\ BgStep([bg EXCEPT !.procs[p] = Child("running", 0, FALSE)])

\* builtin_fg is not running.
NoFg == [pid |-> 0, command |-> <<>>, status |-> PROCESS_RUNNING,
         sigcont |-> FALSE, clobbered |-> FALSE, waited |-> 0, how |-> "none"]

\* builtin_fg reads job->pid and job->command after remove_job_by_pid has
\* freed the job and its command (builtins_jobs.c 139, 142, 151).  Either
\* the allocator has left the freed blocks as they were and the reads give
\* what the fields held, or it has written its own data over them: then the
\* pid read is one no child of the shell has, and the text read is not the
\* command.
FreedPid(pid, clobbered) == IF clobbered THEN PidOf(MaxChildren + 1) ELSE pid
FreedText(command, clobbered) == IF clobbered THEN <<>> ELSE command

\* kill(pid, SIGCONT) on a child of the shell.
Continued(procs, pid) ==
    IF pid \in DOMAIN procs /\ procs[pid].st = "stopped"
    THEN [procs EXCEPT ![pid] = Child("running", 0, FALSE)]
    ELSE procs

\* Lines 124-139 for the job found: the command is printed, a job with status
\* Stopped is sent SIGCONT, the pid becomes the foreground pid and the entry
\* is removed and freed.
FgForeground(job, clobbered) ==
    /\ bg' = [bg EXCEPT
                !.pc = "fg_wait",
                !.fgs = bg.fgs + 1,
                !.jobs = remove_job_by_pid(bg.jobs, job.pid),
                !.procs = IF job.status = PROCESS_STOPPED
                          THEN Continued(bg.procs, job.pid) ELSE bg.procs,
                !.fg = [pid |-> job.pid, command |-> job.command,
                        status |-> job.status,
                        sigcont |-> job.status = PROCESS_STOPPED,
                        clobbered |-> clobbered,
                        waited |-> FreedPid(job.pid, clobbered),
                        how |-> "none"]]
    /\ g' = [g EXCEPT !.foreground_pid = job.pid]

\* Lines 114-118: there is no job with that id.
FgNoSuchJob ==
    /\ bg' = [bg EXCEPT !.pc = "fg_returned", !.ret = Some(1),
                         !.fgs = bg.fgs + 1]
    /\ UNCHANGED g

\* builtin_fg, lines 99-139, called from the prompt with a job id.
FgCall ==
    /\ bg.pc = "prompt"
    /\ bg.fgs < MaxFgCalls
    /\ \E job_id \in 1..bg.next_job_id :
          IF find_job_by_id(bg.jobs, job_id) = None
          THEN FgNoSuchJob
          ELSE \E clobbered \in BOOLEAN :
                  FgForeground(find_job_by_id(bg.jobs, job_id)[1], clobbered)
    /\ UNCHANGED <<fs, ao, log, pp, sc, rl, sh>>

\* The children once waitpid has returned for pid: an ended child is reaped,
\* a stop has been reported.
Waited(procs, pid) ==
    [p \in {q \in DOMAIN procs :
               q # pid \/ procs[q].st \notin {"exited", "signaled"}}
       |-> IF p = pid THEN [procs[p] EXCEPT !.told = TRUE] ELSE procs[p]]

\* Lines 150-153: the process was stopped again; pid and command are
\* job->pid and job->command as line 151 reads them.
FgStoppedAgain(pid, command) ==
    [add_background_job(bg, pid, command, PROCESS_STOPPED) EXCEPT
        !.pc = "fg_returned", !.ret = Some(0), !.fg.how = "stopped",
        !.procs = Waited(bg.procs, bg.fg.waited)]

\* Lines 141-155: waitpid(job->pid, &status, WUNTRACED) returns.  It fails
\* when the pid it was given is not a child of the shell; otherwise it
\* returns when that child has ended or has stopped.
FgWait ==
    /\ bg.pc = "fg_wait"
    /\ IF bg.fg.waited \notin DOMAIN bg.procs
       THEN bg' = [bg EXCEPT !.pc = "fg_returned", !.ret = Some(1),
                             !.fg.how = "error"]
       ELSE /\ WaitNoHang(bg.procs, bg.fg.waited) # "zero"
            /\ IF WaitNoHang(bg.procs, bg.fg.waited) = "stopped"
               THEN bg' = FgStoppedAgain(
                              FreedPid(bg.fg.pid, bg.fg.clobbered),
                              FreedText(bg.fg.command, bg.fg.clobbered))
               ELSE bg' = [bg EXCEPT
                             !.pc = "fg_returned", !.ret = Some(0),
                             !.fg.how = WaitNoHang(bg.procs, bg.fg.waited),
                             !.procs = Waited(bg.procs, bg.fg.waited)]
    /\ g' = [g EXCEPT !.foreground_pid = -1]
    /\ UNCHANGED <<fs, ao, log, pp, sc, rl, sh>>

\* builtin_fg has returned; the loop of main is back at its top.
FgReturn ==
    /\ bg.pc = "fg_returned"
    /\ BgStep([bg EXCEPT !.pc = "prompt", !.ret = None, !.fg = NoFg])

----------------------------------------------------------------------------
(* SpecBg: the shell starts up to MaxChildren children, in the background  *)
(* or stopped in the foreground, which run, stop and end as they like,     *)
(* and checks its jobs between commands.                                   *)

InitBg ==
    /\ bg = [pc |-> "prompt", jobs |-> <<>>, next_job_id |-> 1,
             procs |-> [p \in {} |-> Child("running", 0, FALSE)],
             forks |-> 0, before |-> 0,
             cur |-> [pid |-> 0, command |-> <<>>, disp |-> None],
             ret |-> None, drain |-> <<>>,
             fg |-> NoFg, fgs |-> 0]
    /\ fs = [exist |-> {}, nowrite |-> {}]
    /\ log = <<>>
    /\ ao = Idle /\ pp = Idle /\ sc = Idle /\ rl = Idle /\ sh = Idle
    /\ g = Globals

NextBg ==
    \/ BgFork
    \/ BgForkFails
    \/ BgRegister
    \/ BgResume
    \/ FgStopped
    \/ CheckJobs
    \/ CheckReturn
    \/ BgChildEnds
    \/ BgChildStops
    \/ BgChildContinues
    \/ FgCall
    \/ FgWait
    \/ FgReturn

SpecBg == InitBg /\ [][NextBg]_vars

\* C8: when execute_background_command returns after a successful fork it
\* returns SHELL_SUCCESS, it has not waited for the supervisor child (the
\* child is still the shell's to wait for), the job table has one entry
\* more, its newest entry has the supervisor's pid and status Running, and
\* g_last_background_pid ($!) is that pid.
C8_BackgroundReturns ==
    bg.pc = "bg_returned" =>
        /\ bg.ret = Some(SHELL_SUCCESS)
        /\ bg.cur.pid \in DOMAIN bg.procs
        /\ Len(bg.jobs) = bg.before + 1
        /\ bg.jobs[1].pid = bg.cur.pid
        /\ bg.jobs[1].status = PROCESS_RUNNING
        /\ bg.jobs[1].command = bg.cur.command
        /\ g.last_background_pid = bg.cur.pid

\* A pipeline was put in the background while a stopped job was in the
\* table, and its supervisor is still running when the call returns.
C8_Witness ==
    /\ bg.pc = "bg_returned"
    /\ Len(bg.jobs) >= 2
    /\ bg.jobs[2].status = PROCESS_STOPPED
    /\ bg.procs[bg.cur.pid].st = "running"
    /\ Len(bg.cur.command) > 1
    /\ g.last_background_pid = bg.jobs[1].pid

----------------------------------------------------------------------------
(* The tokenizer and the grammar validator (parser.c).  A line is a        *)
(* sequence of characters; positions are 1-based and At gives NUL past     *)
(* the end, as the terminating '\0' of the C string does.                  *)

\* Scaled down: parser.h has MAX_TOKENS 1024 and MAX_TOKEN_LENGTH 1024.
MAX_TOKENS == 7
MAX_TOKEN_LENGTH == 6

PARSE_SUCCESS == 0
PARSE_SYNTAX_ERROR == 1
PARSE_TOO_MANY_TOKENS == 2

Backquote == "BQ"
At(s, p) == IF p <= Len(s) THEN s[p] ELSE NUL

isspace(c) == c \in {" ", "\t", "\n", "\r"}

Token(type, value, quoted) == [type |-> type, value |-> value, quoted |-> quoted]

\* Line 64: while (isspace(*curr) && *curr != '\n') curr++.
SkipBlanks(s, p) ==
    Min({q \in p..(Len(s) + 1) : ~(isspace(At(s, q)) /\ At(s, q) # "\n")})

\* Line 80: while (*curr && *curr != '\n') curr++.
SkipComment(s, p) ==
    Min({q \in p..(Len(s) + 1) : At(s, q) \in {NUL, "\n"}})

\* Lines 85-157: the operator that starts at p, as <<type, text>>.
OperatorAt(s, p) ==
    CASE At(s, p) = "|" ->
            IF At(s, p + 1) = "|" THEN <<"OR", <<"|", "|">>>>
            ELSE <<"PIPE", <<"|">>>>
      [] At(s, p) = "&" ->
            IF At(s, p + 1) = "&" THEN <<"AND", <<"&", "&">>>>
            ELSE <<"AMPERSAND", <<"&">>>>
      [] At(s, p) = ";" -> <<"SEMICOLON", <<";">>>>
      [] At(s, p) = "(" -> <<"LPAREN", <<"(">>>>
      [] At(s, p) = ")" -> <<"RPAREN", <<")">>>>
      [] At(s, p) = "<" ->
            IF At(s, p + 1) = "<"
            THEN IF At(s, p + 2) = "<" THEN <<"HERESTRING", <<"<", "<", "<">>>>
                 ELSE <<"HEREDOC", <<"<", "<">>>>
            ELSE <<"INPUT_REDIRECT", <<"<">>>>
      [] At(s, p) = ">" ->
            IF At(s, p + 1) = ">" THEN <<"OUTPUT_APPEND", <<">", ">">>>>
            ELSE <<"OUTPUT_REDIRECT", <<">">>>>

IsOperatorChar(c) == c \in {"|", "&", ";", "(", ")", "<", ">"}

\* Lines 164-179: what a backslash and the character c after it add to a
\* double-quoted string.
EscapeInQuotes(c) ==
    CASE c = "n" -> <<"\n">>
      [] c = "t" -> <<"\t">>
      [] c = "r" -> <<"\r">>
      [] c \in {"\\", "\"", "$", Backquote} -> <<c>>
      [] OTHER -> <<"\\", c>>

\* Lines 163-183: the characters of a quoted string from p on; the result is
\* <<value, position of the character that ended the loop>>.
RECURSIVE ScanQuoted(_, _, _, _)
ScanQuoted(s, p, quote, value) ==
    IF At(s, p) = NUL \/ At(s, p) = quote \/ Len(value) >= MAX_TOKEN_LENGTH - 1
    THEN <<value, p>>
    ELSE IF At(s, p) = "\\" /\ quote = "\"" /\ At(s, p + 1) # NUL
    THEN ScanQuoted(s, p + 2, quote, value \o EscapeInQuotes(At(s, p + 1)))
    ELSE ScanQuoted(s, p + 1, quote, Append(value, At(s, p)))

\* Lines 195-210: the characters of an unquoted word from p on.
RECURSIVE ScanWord(_, _, _)
ScanWord(s, p, value) ==
    IF \/ At(s, p) = NUL
       \/ isspace(At(s, p))
       \/ Len(value) >= MAX_TOKEN_LENGTH - 1
       \/ IsOperatorChar(At(s, p))
       \/ At(s, p) = "#"
    THEN <<value, p>>
    ELSE IF At(s, p) = "\\" /\ At(s, p + 1) # NUL
    THEN ScanWord(s, p + 2, Append(value, At(s, p + 1)))
    ELSE ScanWord(s, p + 1, Append(value, At(s, p)))

\* Lines 62-217: the loop of tokenize_input, from position p with the tokens
\* made so far.
RECURSIVE TokenizeFrom(_, _, _, _)
RECURSIVE TokenizeAt(_, _, _, _)

\* Lines 185-190 and 212-215: the word r = <<value, position>> is stored; a
\* closing quote is skipped.
AfterQuoted(s, quote, r, toks, max_tokens) ==
    TokenizeFrom(s, IF At(s, r[2]) = quote THEN r[2] + 1 ELSE r[2],
                 Append(toks, Token("WORD", r[1], 1)), max_tokens)
AfterWord(s, r, toks, max_tokens) ==
    TokenizeFrom(s, r[2], Append(toks, Token("WORD", r[1], 0)), max_tokens)
AfterOperator(s, p, op, toks, max_tokens) ==
    TokenizeFrom(s, p + Len(op[2]), Append(toks, Token(op[1], op[2], 0)),
                 max_tokens)

TokenizeAt(s, p, toks, max_tokens) ==
    IF At(s, p) = NUL THEN toks
    ELSE IF At(s, p) = "\n"
    THEN TokenizeFrom(s, p + 1, Append(toks, Token("NEWLINE", <<"\\", "n">>, 0)),
                      max_tokens)
    ELSE IF At(s, p) = "#"
    THEN TokenizeFrom(s, SkipComment(s, p), toks, max_tokens)
    ELSE IF IsOperatorChar(At(s, p))
    THEN AfterOperator(s, p, OperatorAt(s, p), toks, max_tokens)
    ELSE IF At(s, p) \in {"\"", "'"}
    THEN AfterQuoted(s, At(s, p), ScanQuoted(s, p + 1, At(s, p), <<>>),
                     toks, max_tokens)
    ELSE AfterWord(s, ScanWord(s, p, <<>>), toks, max_tokens)

TokenizeFrom(s, p, toks, max_tokens) ==
    IF At(s, p) = NUL \/ Len(toks) >= max_tokens - 1 THEN toks
    ELSE TokenizeAt(s, SkipBlanks(s, p), toks, max_tokens)

\* Lines 219-225: TOKEN_EOF is added when there is room for it.
WithEof(toks, max_tokens) ==
    IF Len(toks) < max_tokens THEN Append(toks, Token("EOF", <<>>, 0))
    ELSE toks

\* tokenize_input(input, tokens, max_tokens): the tokens written; their
\* number is the value returned.
tokenize_input(input, max_tokens) ==
    WithEof(TokenizeFrom(input, 1, <<>>, max_tokens), max_tokens)

is_operator_token(type) ==
    type \in {"PIPE", "SEMICOLON", "AMPERSAND", "AND", "OR"}

\* pos is the C index: tokens[pos] is toks[pos + 1].
is_at_end(toks, pos) ==
    pos >= Len(toks) \/ toks[pos + 1].type \in {"EOF", "NEWLINE"}

Rejected(pos) == <<PARSE_SYNTAX_ERROR, pos>>
Accepted(pos) == <<PARSE_SUCCESS, pos>>

\* (mutant) validate_name takes any token for a name.
validate_name_AnyToken(toks, pos) ==
    IF is_at_end(toks, pos) THEN Rejected(pos) ELSE Accepted(pos + 1)

validate_name(toks, pos) ==
    IF is_at_end(toks, pos) THEN Rejected(pos)
    ELSE IF toks[pos + 1].type # "WORD" THEN Rejected(pos)
    ELSE Accepted(pos + 1)

validate_input(toks, pos) ==
    IF is_at_end(toks, pos) THEN Rejected(pos)
    ELSE IF toks[pos + 1].type # "INPUT_REDIRECT" THEN Rejected(pos)
    ELSE validate_name(toks, pos + 1)

validate_output(toks, pos) ==
    IF is_at_end(toks, pos) THEN Rejected(pos)
    ELSE IF toks[pos + 1].type \notin {"OUTPUT_REDIRECT", "OUTPUT_APPEND"}
    THEN Rejected(pos)
    ELSE validate_name(toks, pos + 1)

\* The while loop of validate_atomic, from pos.
RECURSIVE AtomicLoop(_, _)
AtomicStep(toks, r) ==
    IF r[1] # PARSE_SUCCESS THEN Rejected(r[2]) ELSE AtomicLoop(toks, r[2])
AtomicLoop(toks, pos) ==
    IF is_at_end(toks, pos) THEN Accepted(pos)
    ELSE IF \/ is_operator_token(toks[pos + 1].type)
            \/ toks[pos + 1].type \in {"LPAREN", "RPAREN"}
    THEN Accepted(pos)
    ELSE IF toks[pos + 1].type = "INPUT_REDIRECT"
    THEN AtomicStep(toks, validate_input(toks, pos))
    ELSE IF toks[pos + 1].type \in {"OUTPUT_REDIRECT", "OUTPUT_APPEND"}
    THEN AtomicStep(toks, validate_output(toks, pos))
    ELSE IF toks[pos + 1].type = "WORD"
    THEN AtomicStep(toks, validate_name(toks, pos))
    ELSE Rejected(pos)

validate_atomic(toks, pos) ==
    IF is_at_end(toks, pos) THEN Rejected(pos)
    ELSE AtomicStep(toks, validate_name(toks, pos))

\* The while loop of validate_pipeline, from pos.
RECURSIVE PipelineTail(_, _)
PipelineStep(toks, r) ==
    IF r[1] # PARSE_SUCCESS THEN Rejected(r[2]) ELSE PipelineTail(toks, r[2])
PipelineTail(toks, pos) ==
    IF is_at_end(toks, pos) THEN Accepted(pos)
    ELSE IF toks[pos + 1].type = "PIPE"
    THEN IF is_at_end(toks, pos + 1) \/ toks[pos + 2].type # "WORD"
         THEN Rejected(pos + 1)
         ELSE PipelineStep(toks, validate_atomic(toks, pos + 1))
    ELSE Accepted(pos)

validate_pipeline(toks, pos) ==
    IF ~is_at_end(toks, pos) /\ toks[pos + 1].type = "PIPE" THEN Rejected(pos)
    ELSE PipelineStep(toks, validate_atomic(toks, pos))

\* The while loop of validate_and_or, from pos.
RECURSIVE AndOrTail(_, _)
AndOrStep(toks, r) ==
    IF r[1] # PARSE_SUCCESS THEN Rejected(r[2]) ELSE AndOrTail(toks, r[2])
AndOrTail(toks, pos) ==
    IF is_at_end(toks, pos) THEN Accepted(pos)
    ELSE IF toks[pos + 1].type \in {"AND", "OR"}
    THEN IF is_at_end(toks, pos + 1) THEN Rejected(pos + 1)
         ELSE AndOrStep(toks, validate_pipeline(toks, pos + 1))
    ELSE Accepted(pos)

validate_and_or(toks, pos) ==
    AndOrStep(toks, validate_pipeline(toks, pos))

\* The while loop of validate_shell_cmd, from pos.
RECURSIVE ShellCmdTail(_, _)
ShellCmdStep(toks, r) ==
    IF r[1] # PARSE_SUCCESS THEN PARSE_SYNTAX_ERROR
    ELSE ShellCmdTail(toks, r[2])
ShellCmdTail(toks, pos) ==
    IF is_at_end(toks, pos) THEN PARSE_SUCCESS
    ELSE IF toks[pos + 1].type \in {"AMPERSAND", "SEMICOLON"}
    THEN IF is_at_end(toks, pos + 1) THEN PARSE_SUCCESS
         ELSE ShellCmdStep(toks, validate_and_or(toks, pos + 1))
    ELSE PARSE_SYNTAX_ERROR

validate_shell_cmd(toks) ==
    IF is_at_end(toks, 0) THEN PARSE_SUCCESS
    ELSE ShellCmdStep(toks, validate_and_or(toks, 0))

\* shell_validate_syntax after tokenize_input: the cap, then the grammar.
ValidateTokens(toks) ==
    IF Len(toks) >= MAX_TOKENS THEN PARSE_TOO_MANY_TOKENS
    ELSE validate_shell_cmd(toks)

shell_validate_syntax(input) ==
    ValidateTokens(tokenize_input(input, MAX_TOKENS))

----------------------------------------------------------------------------
(* Preprocessing: expand_aliases (alias.c) and expand_variables            *)

\* The first position from p on whose character is not white space
\* (Len(s) + 1 when there is none).
SkipSpaces(s, p) ==
    Min({q \in p..(Len(s) + 1) : ~isspace(At(s, q))})

\* The first position from p on whose character is white space or the end.
WordEnd(s, p) ==
    Min({q \in p..(Len(s) + 1) : At(s, q) = NUL \/ isspace(At(s, q))})

\* The first word of the line, from cmd_start to cmd_end, is replaced by its
\* alias value once; `aliases` maps the defined names to their values.
ReplaceFirstWord(input, aliases, cmd_start, cmd_end) ==
    IF SubSeq(input, cmd_start, cmd_end - 1) \in DOMAIN aliases
    THEN SubSeq(input, 1, cmd_start - 1)
         \o aliases[SubSeq(input, cmd_start, cmd_end - 1)]
         \o SubSeq(input, cmd_end, Len(input))
    ELSE input

expand_aliases(input, aliases) ==
    IF SkipSpaces(input, 1) > Len(input) THEN input
    ELSE ReplaceFirstWord(input, aliases, SkipSpaces(input, 1),
                          WordEnd(input, SkipSpaces(input, 1)))

\* snprintf("%d") of a status.
RECURSIVE Decimal(_)
Decimal(n) ==
    IF n < 10 THEN <<<<"0", "1", "2", "3", "4", "5", "6", "7", "8", "9">>[n + 1]>>
    ELSE Decimal(n \div 10) \o Decimal(n % 10)

\* What the references of a line are expanded from: g_last_exit_status and
\* the variable store, a mapping from names to values.
NoVariables == [n \in {} |-> <<>>]
Values(status, variables) == [status |-> status, variables |-> variables]

\* is_varname_char, for the characters that lines are made of here.
is_varname_char(c) == c \in {"a", "b", "e", "x", "y", "_", "0", "1", "3"}

\* get_variable(name): `?` is the last exit status; a name the store does
\* not have gives NULL (no environment variable has that name).
get_variable(vals, name) ==
    IF name = <<"?">> THEN Some(Decimal(vals.status))
    ELSE IF name \in DOMAIN vals.variables THEN Some(vals.variables[name])
    ELSE None

\* The end of the name that starts at p: the first q with a character that
\* is not one of a name.
VarNameEnd(s, p) ==
    Min({q \in p..(Len(s) + 1) : ~is_varname_char(At(s, q))})

ValueOrEmpty(v) == IF v = None THEN <<>> ELSE v[1]

\* expand_variable_reference at a '$': <<text, consumed>>.  Of the forms it
\* knows, `$?`, `$NAME` and a '$' by itself are modelled.
expand_variable_reference(s, i, vals) ==
    IF At(s, i + 1) = "?" THEN <<ValueOrEmpty(get_variable(vals, <<"?">>)), 2>>
    ELSE IF is_varname_char(At(s, i + 1))
    THEN <<ValueOrEmpty(get_variable(vals, SubSeq(s, i + 1, VarNameEnd(s, i + 1) - 1))),
           VarNameEnd(s, i + 1) - i>>
    ELSE <<<<"$">>, 1>>

\* The while loop of expand_variables from position i.
RECURSIVE ExpandFrom(_, _, _, _)
ExpandRef(s, i, result, vals, ref) ==
    ExpandFrom(s, i + ref[2], result \o ref[1], vals)
ExpandFrom(s, i, result, vals) ==
    IF i > Len(s) THEN result
    ELSE IF s[i] = "\\" /\ i + 1 <= Len(s)
    THEN ExpandFrom(s, i + 2, result \o <<s[i], s[i + 1]>>, vals)
    ELSE IF s[i] = "$"
    THEN ExpandRef(s, i, result, vals, expand_variable_reference(s, i, vals))
    ELSE ExpandFrom(s, i + 1, Append(result, s[i]), vals)

expand_variables(input, vals) == ExpandFrom(input, 1, <<>>, vals)

\* preprocess_input: aliases first, then variables.
preprocess_input(input, aliases, vals) ==
    expand_variables(expand_aliases(input, aliases), vals)

\* shell_read_input for a line read by fgets, its newline removed: a line
\* the validator answers PARSE_SYNTAX_ERROR for is replaced by "".
shell_read_input(line) ==
    IF shell_validate_syntax(line) = PARSE_SYNTAX_ERROR THEN <<>> ELSE line

----------------------------------------------------------------------------
(* The main loop: main.c, with execute_shell_command_with_operators,       *)
(* execute_shell_command and execute_sequential_commands of execute.c      *)

\* The shell at the top of its loop, before anything is read.
AtPrompt(interactive, aliases) ==
    [pc |-> "read", interactive |-> interactive, aliases |-> aliases,
     line |-> None, processed |-> <<>>, tokens |-> <<>>,
     seq |-> [i |-> 0, start |-> 0, last_result |-> SHELL_SUCCESS],
     ret |-> None, in_history |-> FALSE, logged |-> FALSE, via |-> None]

MainStep(s) ==
    /\ sh' = s
    /\ UNCHANGED <<fs, ao, log, pp, sc, rl, bg, g>>

\* builtin_exit has called exit() in the shell process.
Exited(s) == [s EXCEPT !.pc = "exit", !.via = Some("exit")]

\* (mutant) an empty line, which is also what Ctrl-C in the editor and a
\* rejected line give, ends the loop as NULL does.
AfterRead_EmptyLineEnds(s, input_str) ==
    IF input_str = None THEN [s EXCEPT !.pc = "exit", !.via = Some("eof")]
    ELSE IF Len(input_str[1]) = 0 THEN [s EXCEPT !.pc = "exit"]
    ELSE [s EXCEPT !.pc = "process", !.line = input_str]

\* Lines 71-82: NULL ends the loop, an empty line starts it again.
AfterRead(s, input_str) ==
    IF input_str = None THEN [s EXCEPT !.pc = "exit", !.via = Some("eof")]
    ELSE IF Len(input_str[1]) = 0 THEN s
    ELSE [s EXCEPT !.pc = "process", !.line = input_str]

\* What is recorded of a segment that was handled: where it starts in the
\* token array it is part of, whether a command was built from it, the
\* result, and the argument lists of the processes that ran.
SegmentEvent(start, len, x) ==
    <<[start |-> start, len |-> len, ran |-> x.ran, result |-> x.result,
       procs |-> x.procs]>>

\* Lines 103-115: the words for which the line is kept out of the log.
ShouldLog(toks) ==
    ~\E k \in 1..Len(toks) :
        /\ toks[k].type = "WORD"
        /\ toks[k].value \in {<<"l", "o", "g">>,
                              <<"h", "i", "s", "t", "o", "r", "y">>,
                              <<"a", "c", "t", "i", "v", "i", "t", "i", "e", "s">>,
                              <<"j", "o", "b", "s">>,
                              <<"p", "i", "n", "g">>}

\* execute_sequential_commands after the iteration at index i: `boundary`
\* tells whether tokens[i] ended a segment, lr is last_result.
SeqAdvance(s, boundary, lr) ==
    [s EXCEPT !.seq = [i |-> s.seq.i + 1,
                       start |-> IF boundary THEN s.seq.i + 1 ELSE s.seq.start,
                       last_result |-> lr],
              !.pc  = IF s.seq.i + 1 > Len(s.tokens) THEN "log" ELSE "seq",
              !.ret = IF s.seq.i + 1 > Len(s.tokens) THEN Some(lr) ELSE None]

\* is_end, is_semi, is_bg of the iteration at index i.
SeqKind(toks, i) ==
    IF IsEndAt(toks, i) THEN "end"
    ELSE IF toks[i + 1].type = "SEMICOLON" THEN "semi"
    ELSE IF toks[i + 1].type = "AMPERSAND" THEN "bg"
    ELSE "other"

\* Lines 61-65 and 71-82 in an interactive shell: the line shell_readline
\* returns is taken as it is.  It has fewer than LINE_BUFFER_SIZE characters.
\* (The job table is empty in these runs, so check_background_jobs at the top
\* of the loop finds nothing.)
MainReadline(lines) ==
    /\ sh.pc = "read"
    /\ sh.interactive
    /\ \E line \in lines :
          /\ Len(line) < LINE_BUFFER_SIZE
          /\ MainStep(AfterRead(sh, Some(line)))

\* Lines 66-82 when stdin is not a terminal.
MainReadInput(lines) ==
    /\ sh.pc = "read"
    /\ ~sh.interactive
    /\ \E line \in lines :
          MainStep(AfterRead(sh, Some(shell_read_input(line))))

\* End of input: Ctrl-D on an empty line, or fgets returns NULL.
MainEof ==
    /\ sh.pc = "read"
    /\ MainStep(AfterRead(sh, None))

\* Lines 84-101: history_add, preprocess_input, tokenize_input.
MainTokenize ==
    /\ sh.pc = "process"
    /\ MainStep([sh EXCEPT
                   !.pc = "execute",
                   !.in_history = TRUE,
                   !.processed = preprocess_input(sh.line[1], sh.aliases,
                                                  Values(g.last_exit_status, NoVariables)),
                   !.tokens = tokenize_input(
                                  preprocess_input(sh.line[1], sh.aliases,
                                                   Values(g.last_exit_status, NoVariables)),
                                  MAX_TOKENS)])

\* Lines 117-120 with execute_shell_command_with_operators: a line with ';'
\* or '&' goes to execute_sequential_commands, a line with && or || to
\* execute_and_or_list, any other to execute_shell_command, which returns
\* SHELL_FAILURE when nothing could be built.
MainDispatch ==
    /\ sh.pc = "execute"
    /\ Len(sh.tokens) > 0
    /\ IF has_sequential_or_background(sh.tokens)
       THEN MainStep([sh EXCEPT !.pc = "seq"])
       ELSE IF has_and_or(sh.tokens)
       THEN /\ sh' = [sh EXCEPT !.pc = "andor"]
            /\ ao' = AndOrCall(sh.tokens)
            /\ UNCHANGED <<fs, log, pp, sc, rl, bg, g>>
       ELSE \E res \in ResultCodes :
               LET x == ExecSegment(sh.tokens, fs, res, SHELL_FAILURE)
               IN  /\ sh'  = IF x.exits THEN Exited(sh)
                             ELSE [sh EXCEPT !.pc = "log", !.ret = Some(x.result)]
                   /\ fs'  = x.fs
                   /\ log' = log \o SegmentEvent(0, Len(sh.tokens), x)
                   /\ UNCHANGED <<ao, pp, sc, rl, bg, g>>

\* execute_and_or_list has returned to execute_shell_command_with_operators.
AndOrReturn ==
    /\ sh.pc = "andor"
    /\ ao.pc = "done"
    /\ sh' = [sh EXCEPT !.pc = "log", !.ret = Some(ao.last_result)]
    /\ ao' = Idle
    /\ UNCHANGED <<fs, log, pp, sc, rl, bg, g>>

\* Lines 374-375 for a segment that '&' ends: execute_background_command
\* forks a child for it and registers the job, or fork fails.
SeqBackground(seg) ==
    \E forked \in BOOLEAN :
       /\ sh' = SeqAdvance(sh, TRUE, IF forked THEN SHELL_SUCCESS ELSE SHELL_FAILURE)
       /\ bg' = IF forked
                THEN add_background_job(bg, PidOf(bg.next_job_id),
                                        JoinTokens(seg), PROCESS_RUNNING)
                ELSE bg
       /\ g' = IF forked
               THEN [g EXCEPT !.last_background_pid = PidOf(bg.next_job_id)]
               ELSE g
       /\ log' = log \o SegmentEvent(sh.seq.start, Len(seg),
                        [ran |-> forked,
                         result |-> IF forked THEN SHELL_SUCCESS ELSE SHELL_FAILURE,
                         procs |-> IF forked
                                   THEN <<[k \in 1..Len(seg) |-> seg[k].value]>>
                                   ELSE <<>>])
       /\ UNCHANGED <<fs, ao, pp, sc, rl>>

\* Lines 376-390 for a segment that ';' or the end of the tokens ends.
SeqForeground(seg) ==
    IF has_and_or(seg)
    THEN /\ sh' = [sh EXCEPT !.pc = "seq_andor"]
         /\ ao' = AndOrCall(seg)
         /\ UNCHANGED <<fs, log, pp, sc, rl, bg, g>>
    ELSE \E res \in ResultCodes :
            LET x == ExecSegment(seg, fs, res, sh.seq.last_result)
            IN  /\ sh'  = IF x.exits THEN Exited(sh)
                          ELSE SeqAdvance(sh, TRUE, x.result)
                /\ fs'  = x.fs
                /\ log' = log \o SegmentEvent(sh.seq.start, Len(seg), x)
                /\ UNCHANGED <<ao, pp, sc, rl, bg, g>>

\* One iteration of the for loop of execute_sequential_commands.
SeqIter ==
    /\ sh.pc = "seq"
    /\ IF SeqKind(sh.tokens, sh.seq.i) = "other"
       THEN MainStep(SeqAdvance(sh, FALSE, sh.seq.last_result))
       ELSE IF sh.seq.i - sh.seq.start = 0
       THEN MainStep(SeqAdvance(sh, TRUE, sh.seq.last_result))
       ELSE IF SeqKind(sh.tokens, sh.seq.i) = "bg"
       THEN SeqBackground(SubSeq(sh.tokens, sh.seq.start + 1, sh.seq.i))
       ELSE SeqForeground(SubSeq(sh.tokens, sh.seq.start + 1, sh.seq.i))

\* execute_and_or_list has returned to execute_sequential_commands.
SeqAndOrReturn ==
    /\ sh.pc = "seq_andor"
    /\ ao.pc = "done"
    /\ sh' = SeqAdvance(sh, TRUE, ao.last_result)
    /\ ao' = Idle
    /\ UNCHANGED <<fs, log, pp, sc, rl, bg, g>>

\* builtin_exit was run by execute_and_or_list: the shell process is gone.
AndOrExited ==
    /\ sh.pc \in {"andor", "seq_andor"}
    /\ ao.pc = "exited"
    /\ sh' = Exited(sh)
    /\ ao' = Idle
    /\ UNCHANGED <<fs, log, pp, sc, rl, bg, g>>

\* Lines 122-125: log_add_command unless one of the words forbids it.
MainLog ==
    /\ sh.pc = "log"
    /\ MainStep([sh EXCEPT !.pc = "logged", !.logged = ShouldLog(sh.tokens)])

\* Lines 127-129: the buffers of the line are freed and the loop starts again.
MainNext ==
    /\ sh.pc = "logged"
    /\ sh' = AtPrompt(sh.interactive, sh.aliases)
    /\ log' = <<>>
    /\ UNCHANGED <<fs, ao, pp, sc, rl, bg, g>>

----------------------------------------------------------------------------
(* SpecMain: the main loop on lines put together from up to MaxPieces      *)
(* pieces, in an interactive and in a non-interactive shell.               *)

MaxPieces == 3

PieceMenu ==
    { <<"a">>, <<";", "a">>, <<"|", "a">>, <<"&", "&", "a">>, <<"<", "f">>,
      <<";", "a", ";", "a">>, <<"e", "x", "i", "t">> }

RECURSIVE LinesOf(_)
LinesOf(n) ==
    IF n = 0 THEN {<<>>}
    ELSE LinesOf(n - 1) \cup {l \o p : l \in LinesOf(n - 1), p \in PieceMenu}

InputLines == LinesOf(MaxPieces)

\* No alias, or `alias a=b`.
AliasTables ==
    { [n \in {} |-> <<>>], [n \in {<<"a">>} |-> <<"b">>] }

InitMain ==
    /\ \E interactive \in BOOLEAN : \E aliases \in AliasTables :
          sh = AtPrompt(interactive, aliases)
    /\ fs \in [exist : SUBSET FileNames, nowrite : {{}}]
    /\ log = <<>>
    /\ ao = Idle /\ pp = Idle /\ sc = Idle /\ rl = Idle /\ bg = NoJobs
    /\ g = Globals

NextMain ==
    \/ MainReadline(InputLines)
    \/ MainReadInput(InputLines)
    \/ MainEof
    \/ MainTokenize
    \/ MainDispatch
    \/ AndOrIter
    \/ AndOrReturn
    \/ SeqIter
    \/ SeqAndOrReturn
    \/ AndOrExited
    \/ MainLog
    \/ MainNext

SpecMain == InitMain /\ [][NextMain]_vars

\* The steps that deal with a line once it has been read.
LineStep ==
    \/ MainTokenize
    \/ MainDispatch
    \/ AndOrIter
    \/ AndOrReturn
    \/ SeqIter
    \/ SeqAndOrReturn
    \/ AndOrExited
    \/ MainLog
    \/ MainNext

\* The conditions under which the steps of LineStep can be taken: each step
\* is a test of sh.pc and ao.pc followed by assignments.
LineStepEnabled ==
    \/ sh.pc = "process"
    \/ sh.pc = "execute" /\ Len(sh.tokens) > 0
    \/ ao.pc = "loop"
    \/ sh.pc \in {"andor", "seq_andor"} /\ ao.pc \in {"done", "exited"}
    \/ sh.pc \in {"seq", "log", "logged"}

\* The shell is one thread: once a line is read, the loop takes its steps one
\* after the other.  A read may wait for input for ever, so it is not forced.
\* This is WF_vars(LineStep) with ENABLED <<LineStep>>_vars written out.
SpecMainLive ==
    SpecMain /\ ([]<>(~LineStepEnabled) \/ []<><<LineStep>>_vars)

\* A process of the line read last has been started.
RanSomething == \E k \in 1..Len(log) : log[k].procs # <<>>

\* The line read last, while the loop is working on it.
HasLine == sh.pc \in {"process", "execute", "andor", "seq", "seq_andor",
                      "log", "logged"}

\* C5: a line whose token stream the grammar validator rejects is discarded
\* without executing any part of it, in an interactive shell as well as in a
\* non-interactive one: no process of such a line is ever started.
C5_RejectedLineDiscarded ==
    (HasLine /\ shell_validate_syntax(sh.line[1]) = PARSE_SYNTAX_ERROR)
        => ~RanSomething

\* C6: when a redirection target of a line cannot be opened, the line fails
\* with no partial effects: no command of the line is executed and no
\* pipeline stage is dropped while the others run.  Stated for lines the
\* validator accepts: if validate_all_redirections fails on the tokens of
\* such a line, no process of the line is ever started.
C6_RedirectionFailureStopsLine ==
    (/\ HasLine
     /\ sh.pc # "process"
     /\ shell_validate_syntax(sh.line[1]) = PARSE_SUCCESS
     /\ validate_all_redirections(sh.tokens, fs).status = SHELL_FAILURE)
        => ~RanSomething

\* The number of tokens of a line when nothing cuts the token stream short.
TokensOf(line) == Len(tokenize_input(line, Len(line) + 2))

\* C7: tokenize_input emits at most MAX_TOKENS tokens, and a line whose
\* tokens exceed the cap is rejected: no command of it runs, the truncated
\* prefix of its token stream is not executed.
C7_OverCapLineRejected ==
    HasLine /\ sh.pc # "process" =>
        /\ Len(sh.tokens) <= MAX_TOKENS
        /\ TokensOf(sh.processed) > MAX_TOKENS => ~RanSomething

\* The exit built-in was run by the shell process itself.
ExitRan(l) ==
    \E k \in 1..Len(l) : Len(l[k].procs) = 1 /\ l[k].procs[1][1] \in ExitNames

\* The loop of main ends in this step.
LoopEnds == sh.pc # "exit" /\ sh'.pc = "exit"

\* C14: the main loop ends only when the read at the top of the loop returns
\* NULL or when the exit built-in runs in the shell process; after every
\* other outcome of a line the loop is back at the top, where the next
\* prompt is written.
C14_LoopEndsOnEofOrExit ==
    /\ [][LoopEnds =>
             \/ sh.pc = "read" /\ sh'.via = Some("eof")
             \/ sh.pc # "read" /\ sh'.via = Some("exit") /\ ExitRan(log')]_vars
    /\ [](HasLine => LineStepEnabled)
    /\ (HasLine ~> (sh.pc = "read" \/ (sh.pc = "exit" /\ sh.via = Some("exit"))))

\* A line whose redirection could not be opened has been dealt with: nothing
\* was run, the result is SHELL_FAILURE, and the loop is about to start again.
C14_Witness ==
    /\ sh.pc = "logged"
    /\ sh.ret = Some(SHELL_FAILURE)
    /\ log # <<>>
    /\ \A k \in 1..Len(log) : ~log[k].ran

\* The job ids of the entries of a job list.
JobIds(jobs) == {jobs[k].job_id : k \in 1..Len(jobs)}

\* C15: the job ids add_background_job hands out are strictly increasing
\* over the session and none is assigned twice, also after entries were
\* removed by check_background_jobs or removed and put back by fg: the
\* entries of the table have different ids, all below next_job_id;
\* next_job_id never goes down; and an id that appears in the table is not
\* below the value next_job_id had before the step.
C15_JobIdsNeverReused ==
    /\ [](bg.pc # "idle" =>
            /\ \A k, l \in 1..Len(bg.jobs) :
                  k # l => bg.jobs[k].job_id # bg.jobs[l].job_id
            /\ \A k \in 1..Len(bg.jobs) : bg.jobs[k].job_id < bg.next_job_id)
    /\ [][bg.pc # "idle" =>
            /\ bg'.next_job_id >= bg.next_job_id
            /\ \A k \in 1..Len(bg'.jobs) :
                  bg'.jobs[k].job_id \notin JobIds(bg.jobs) =>
                     /\ bg'.jobs[k].job_id >= bg.next_job_id
                     /\ bg'.jobs[k].job_id < bg'.next_job_id]_vars

\* fg has put a job back, stopped again, after check_background_jobs had
\* removed another job: the entry has the third id of the session.
C15_Witness ==
    /\ bg.pc = "fg_returned"
    /\ bg.fg.how = "stopped"
    /\ bg.forks = 2
    /\ Len(bg.jobs) = 1
    /\ bg.jobs[1].job_id = 3

\* The entries of a job list with the given pid.
JobsOf(jobs, pid) == {k \in 1..Len(jobs) : jobs[k].pid = pid}

\* C16: a run of check_background_jobs deals with every tracked job: when
\* waitpid reported that the process has ended (exit or signal) the
\* transition is announced and the entry is gone after the run; when it
\* reported a stop the transition is announced and the entry stays with
\* status Stopped; when it reported nothing the entry stays and nothing is
\* said about it.
C16_DrainAnnounces ==
    bg.pc = "checked" =>
        \A k \in 1..Len(bg.drain) :
           /\ bg.drain[k].w \in {"exited", "signaled"} =>
                 /\ bg.drain[k].said # None
                 /\ JobsOf(bg.jobs, bg.drain[k].pid) = {}
           /\ bg.drain[k].w = "stopped" =>
                 /\ bg.drain[k].said # None
                 /\ \E j \in JobsOf(bg.jobs, bg.drain[k].pid) :
                       bg.jobs[j].status = PROCESS_STOPPED
           /\ bg.drain[k].w = "zero" =>
                 /\ bg.drain[k].said = None
                 /\ JobsOf(bg.jobs, bg.drain[k].pid) # {}

\* C17: fg on an existing job sends SIGCONT exactly when the job is Stopped,
\* makes the job's pid the foreground pid, removes the entry and waits for
\* that pid; when the wait ends with the process stopped again, the new
\* head of the table has that pid and command, status Stopped and a fresh
\* job id.
C17_FgWaitsForTheJob ==
    /\ bg.pc = "fg_wait" =>
          /\ bg.fg.sigcont = (bg.fg.status = PROCESS_STOPPED)
          /\ g.foreground_pid = bg.fg.pid
          /\ JobsOf(bg.jobs, bg.fg.pid) = {}
          /\ bg.fg.waited = bg.fg.pid
    /\ (bg.pc = "fg_returned" /\ bg.fg.how = "stopped") =>
          /\ bg.jobs # <<>>
          /\ bg.jobs[1].pid = bg.fg.pid
          /\ bg.jobs[1].command = bg.fg.command
          /\ bg.jobs[1].status = PROCESS_STOPPED
          /\ bg.jobs[1].job_id = bg.next_job_id - 1

\* The run of check_background_jobs has printed something about a job.
DrainSpoke(drain) == \E k \in 1..Len(drain) : drain[k].said # None

\* C18: what is said about the state changes of background jobs is said by
\* check_background_jobs at the top of the main loop only: the step that
\* prints starts at the prompt with no foreground pid published, and while
\* a foreground pid is published or fg waits nothing has been printed.
C18_AnnouncedAtPromptOnly ==
    /\ [][(bg.pc # "idle" /\ bg'.drain # bg.drain /\ DrainSpoke(bg'.drain)) =>
             /\ bg.pc = "prompt"
             /\ g.foreground_pid = -1
             /\ g'.foreground_pid = -1]_vars
    /\ []((bg.pc = "fg_wait" \/ (bg.pc # "idle" /\ g.foreground_pid # -1)) =>
             ~DrainSpoke(bg.drain))

\* A job ended and was announced by the run at the prompt that came after an
\* fg command.
C18_Witness ==
    /\ bg.pc = "checked"
    /\ DrainSpoke(bg.drain)
    /\ bg.fgs = 1

----------------------------------------------------------------------------
(* g_foreground_pid and the handlers of SIGINT and SIGTSTP (signals.c).    *)
(* SpecForeground puts the three places that publish a foreground pid      *)
(* side by side: a run starts as a run of execute_pipeline, of             *)
(* execute_single_command, or of the job machinery with builtin_fg, and    *)
(* SIGINT and SIGTSTP may reach the shell at any moment.                   *)

\* sigint_handler and sigtstp_handler, signals.c (part_004) 230-247: the
\* signal is passed on when g_foreground_pid > 0.
Handler(sig) ==
    /\ g' = IF g.foreground_pid > 0
            THEN [g EXCEPT !.sent = Some(<<g.foreground_pid, sig>>)]
            ELSE g
    /\ UNCHANGED <<fs, ao, log, pp, sc, rl, sh, bg>>

sigint_handler == Handler(SIGINT)

sigtstp_handler == Handler(SIGTSTP)

\* The job table with one job, stopped in the foreground earlier, after the
\* jobs before it have come and gone; one more child can be started.
InitForegroundJobs ==
    /\ bg = [pc |-> "prompt",
             jobs |-> <<Job(PidOf(MaxChildren - 1), MaxChildren - 1, <<"a">>,
                            PROCESS_STOPPED)>>,
             next_job_id |-> MaxChildren,
             procs |-> [p \in {PidOf(MaxChildren - 1)} |->
                           Child("stopped", SIGTSTP, TRUE)],
             forks |-> MaxChildren - 1, before |-> 0,
             cur |-> [pid |-> 0, command |-> <<>>, disp |-> None],
             ret |-> None, drain |-> <<>>, fg |-> NoFg, fgs |-> 0]
    /\ fs = [exist |-> {}, nowrite |-> {}]
    /\ log = <<>>
    /\ ao = Idle /\ pp = Idle /\ sc = Idle /\ rl = Idle /\ sh = Idle
    /\ g = Globals

InitForeground == InitPipe \/ InitSingle \/ InitForegroundJobs

NextForeground ==
    \/ pp.pc # "idle" /\ NextPipe
    \/ sc.pc # "idle" /\ NextSingle
    \/ bg.pc # "idle" /\ NextBg
    \/ sigint_handler
    \/ sigtstp_handler

SpecForeground == InitForeground /\ [][NextForeground]_vars

\* The shell is between the statement that publishes a foreground pid and
\* the one that resets it after the wait: pid is the pid published.
ForegroundWait(pid) ==
    \/ sc.pc = "wait" /\ pid = SinglePid
    \/ pp.pc \in {"wait", "return"} /\ pid = PidOf(pp.n)
    \/ bg.pc = "fg_wait" /\ pid = bg.fg.pid

\* C19: g_foreground_pid is -1 unless the shell is in the wait for a
\* foreground child, where it is the pid of that child; it is -1 when
\* execute_single_command, execute_pipeline and builtin_fg have returned
\* and when the shell is at its prompt; and a handler sends its signal to
\* the pid published at that moment, and sends nothing when the value is -1.
C19_ForegroundPidSentinel ==
    /\ [](/\ g.foreground_pid # -1 => ForegroundWait(g.foreground_pid)
          /\ sc.pc = "done" => g.foreground_pid = -1
          /\ pp.pc = "done" => g.foreground_pid = -1
          /\ bg.pc \in {"prompt", "checked", "fg_returned"} =>
                g.foreground_pid = -1)
    /\ [][g'.sent # g.sent =>
             /\ g.foreground_pid > 0
             /\ \E sig \in {SIGINT, SIGTSTP} :
                   g'.sent = Some(<<g.foreground_pid, sig>>)]_vars
    /\ [][g.foreground_pid = -1 => g'.sent = g.sent]_vars

\* While builtin_fg waits for its job, Ctrl-Z has been passed on to it.
C19_Witness ==
    /\ bg.pc = "fg_wait"
    /\ g.foreground_pid = bg.fg.pid
    /\ g.sent = Some(<<bg.fg.pid, SIGTSTP>>)

\* The dispositions with which the children forked by the executor have gone
\* on to their program or built-in: the stages of a pipeline, the child of a
\* single command, the child that runs a background command.
ChildDispositions ==
    (IF pp.pc = "idle" THEN {}
     ELSE {pp.disp[k][1] : k \in {j \in 1..pp.n : pp.disp[j] # None}})
    \cup (IF sc.pc = "idle" \/ sc.disp = None THEN {} ELSE {sc.disp[1]})
    \cup (IF bg.pc = "idle" \/ bg.cur.disp = None THEN {} ELSE {bg.cur.disp[1]})

\* C20: every child the executor forks has SIGINT, SIGTSTP and SIGQUIT at
\* their default dispositions when it calls exec or runs a built-in.
C20_ChildrenResetSignals ==
    \A disp \in ChildDispositions : \A s \in DOMAIN disp : disp[s] = "default"

----------------------------------------------------------------------------
(* Descriptors of the shell across execute_single_command.                 *)

\* C21: on every return of execute_single_command (no word, a redirection
\* that cannot be opened, an assignment, a built-in, a failed dup, a failed
\* fork, a child that ended or stopped, a failed waitpid) the shell holds
\* exactly the descriptors it held at entry, each on the same file: what
\* setup_redirections opened and what dup saved is closed, and 0 and 1 are
\* back on the terminal after a built-in.
C21_RedirectionFdsClosed ==
    sc.pc = "done" => sc.fds = ShellFds

\* A built-in with both redirections has returned 0.
C21_Witness ==
    /\ sc.pc = "done"
    /\ sc.cmd.argc > 0
    /\ is_builtin(sc.cmd.argv[1])
    /\ sc.cmd.input_file # None
    /\ sc.cmd.output_file # None
    /\ sc.ret = Some(SHELL_SUCCESS)
    /\ sc.fds = ShellFds

----------------------------------------------------------------------------
(* A parenthesized group on a line: shell_read_input (input.c 22) or       *)
(* shell_readline, then tokenize_input and                                 *)
(* execute_shell_command_with_operators (execute.c 484-495).               *)
(* execute_subshell (execute.c 457-481) has no caller.                     *)

GroupLines ==
    { <<"(", "v", "=", "b", ")">>, <<"(", "c", "d", ")">>, <<"(", "a", ")">>,
      <<"(", "c", "d", "<", "f", ")">>, <<"(", "a", ">", "f", ")">>,
      <<"(", "v", "=", "b", ">", "f", ")">> }

\* The line is a group: ( ... ) around a list.
IsGroup(line) == Len(line) >= 2 /\ line[1] = "(" /\ line[Len(line)] = ")"

\* input.c 22: a line read without a terminal is dropped when the validator
\* answers PARSE_SYNTAX_ERROR.
GroupRejected ==
    /\ sh.pc = "line"
    /\ sh.via = "read_input"
    /\ shell_validate_syntax(sh.line) = PARSE_SYNTAX_ERROR
    /\ sh' = [sh EXCEPT !.pc = "discarded"]
    /\ UNCHANGED <<fs, ao, log, pp, sc, rl, bg, g>>

\* main.c 101-119 and execute.c 484-495, 265-298: with no ; & && || | among
\* the tokens the line goes to parse_command_from_tokens, which skips the
\* parentheses, and to execute_single_command in the shell itself.
GroupDispatch ==
    /\ sh.pc = "line"
    /\ sh.via = "read_input" => shell_validate_syntax(sh.line) # PARSE_SYNTAX_ERROR
    /\ LET toks == tokenize_input(sh.line, MAX_TOKENS)
           c    == parse_command_from_tokens(toks, fs)
       IN  /\ ~has_sequential_or_background(toks)
           /\ ~has_and_or(toks)
           /\ ~has_pipes(toks)
           /\ IF c.cmd = None
              THEN /\ sh' = [sh EXCEPT !.pc = "returned"]
                   /\ sc' = sc
              ELSE /\ sh' = [sh EXCEPT !.pc = "single"]
                   /\ sc' = SingleCall(c.cmd[1])
           /\ fs' = c.fs
    /\ UNCHANGED <<ao, log, pp, rl, bg, g>>

\* execute_single_command has returned to main.
GroupReturn ==
    /\ sh.pc = "single"
    /\ sc.pc = "done"
    /\ sh' = [sh EXCEPT !.pc = "returned"]
    /\ UNCHANGED <<fs, ao, log, pp, sc, rl, bg, g>>

InitGroup ==
    /\ fs \in FsStates
    /\ \E line \in GroupLines, via \in {"readline", "read_input"} :
          sh = [pc |-> "line", line |-> line, via |-> via]
    /\ sc = Idle
    /\ log = <<>>
    /\ ao = Idle /\ pp = Idle /\ rl = Idle
    /\ bg \in JobTables
    /\ g = Globals

NextGroup ==
    \/ GroupRejected
    \/ GroupDispatch
    \/ GroupReturn
    \/ sc.pc # "idle" /\ NextSingle

SpecGroup == InitGroup /\ [][NextGroup]_vars

\* C22: a line that is a parenthesized group is executed, and in a child:
\* when the shell is done with the line, the line was not dropped and no
\* assignment of the group was made in the shell itself.
C22_GroupRunsInChild ==
    (IsGroup(sh.line) /\ sh.pc \in {"discarded", "returned"}) =>
        /\ sh.pc = "returned"
        /\ sc.pc = "done" => sc.set = None

\* The part that does not depend on how the line was read: an assignment in
\* a group is never made in the shell.
GroupAssignmentStaysInChild ==
    (IsGroup(sh.line) /\ sh.pc = "returned" /\ sc.pc = "done") => sc.set = None

----------------------------------------------------------------------------
(* Aliases: builtin_alias (builtins_vars.c 90-113), set_alias and          *)
(* expand_aliases (part_005 400-516), seen over a session of lines.       *)

\* set_alias(name, value): a new entry, or a new value for an old one.
set_alias(store, name, value) ==
    [n \in DOMAIN store \cup {name} |-> IF n = name THEN value ELSE store[n]]

FirstEq(arg) == Min({k \in 1..Len(arg) : arg[k] = "="})

\* builtin_alias(args, argc), from argument i on: NAME=VALUE defines, a
\* bare NAME is looked up and ends the command with 1 when it is not found.
RECURSIVE AliasArgs(_, _, _)
AliasArgs(args, i, store) ==
    IF i > Len(args) THEN [aliases |-> store, ret |-> 0]
    ELSE IF \E k \in 1..Len(args[i]) : args[i][k] = "="
    THEN AliasArgs(args, i + 1,
                   set_alias(store, SubSeq(args[i], 1, FirstEq(args[i]) - 1),
                             SubSeq(args[i], FirstEq(args[i]) + 1, Len(args[i]))))
    ELSE IF args[i] \in DOMAIN store
    THEN AliasArgs(args, i + 1, store)
    ELSE [aliases |-> store, ret |-> 1]

builtin_alias(args, store) == AliasArgs(args, 2, store)

AliasWord == <<"a", "l", "i", "a", "s">>

\* The first word of a line, as expand_aliases cuts it out.
FirstWord(line) ==
    SubSeq(line, SkipSpaces(line, 1), WordEnd(line, SkipSpaces(line, 1)) - 1)

\* The lines of the session and the aliases defined before it.
AliasLines ==
    { AliasWord \o <<" ", "n", "=", "'", "a", " ", "b", "'">>,
      AliasWord \o <<" ", "n", "=", "a">>,
      <<"n">>, <<"a">>, <<"b", " ", "x">> }
AliasStores ==
    { [n \in {} |-> <<>>],
      [n \in {<<"a">>, <<"b">>} |-> IF n = <<"a">> THEN <<"b">> ELSE <<"c">>],
      [n \in {<<"a">>} |-> <<"a">>],
      [n \in {<<"a">>, <<"b">>} |-> IF n = <<"a">> THEN <<"b">> ELSE <<"a">>] }
MaxAliasLines == 2

NoFiles == [exist |-> {}, nowrite |-> {}]

\* expand_aliases(input) on the line that was read.
AliasPass ==
    /\ sh.pc = "line"
    /\ sh' = [sh EXCEPT !.pc = "expanded",
                        !.out = expand_aliases(sh.line, sh.aliases)]
    /\ UNCHANGED <<fs, ao, log, pp, sc, rl, bg, g>>

\* expand_aliases applied to its own output.
AliasPassAgain ==
    /\ sh.pc = "expanded"
    /\ sh' = [sh EXCEPT !.pc = "twice",
                        !.again = expand_aliases(sh.out, sh.aliases)]
    /\ UNCHANGED <<fs, ao, log, pp, sc, rl, bg, g>>

\* main.c 88-119: the line is preprocessed, tokenized and executed; its
\* words are the argv of one command; `alias` runs builtin_alias.
ArgvOf(line, aliases, status) ==
    parse_command_from_tokens(
        tokenize_input(preprocess_input(line, aliases, Values(status, NoVariables)),
                       MAX_TOKENS),
        NoFiles).cmd[1].argv

AliasRun ==
    /\ sh.pc = "twice"
    /\ LET argv == ArgvOf(sh.line, sh.aliases, g.last_exit_status)
       IN  sh' = [sh EXCEPT
                    !.pc = "ran",
                    !.argv = argv,
                    !.aliases = IF Len(argv) > 0 /\ argv[1] = AliasWord
                                THEN builtin_alias(argv, sh.aliases).aliases
                                ELSE sh.aliases]
    /\ UNCHANGED <<fs, ao, log, pp, sc, rl, bg, g>>

\* The next line is read.
AliasNextLine ==
    /\ sh.pc = "ran"
    /\ sh.n < MaxAliasLines
    /\ \E line \in AliasLines :
          sh' = [sh EXCEPT !.pc = "line", !.n = sh.n + 1, !.prev = sh.line,
                           !.line = line, !.out = <<>>, !.again = <<>>,
                           !.argv = <<>>]
    /\ UNCHANGED <<fs, ao, log, pp, sc, rl, bg, g>>

InitAlias ==
    /\ \E line \in AliasLines, store \in AliasStores :
          sh = [pc |-> "line", n |-> 1, aliases |-> store, prev |-> <<>>,
                line |-> line, out |-> <<>>, again |-> <<>>, argv |-> <<>>]
    /\ fs = NoFiles
    /\ log = <<>>
    /\ ao = Idle /\ pp = Idle /\ rl = Idle /\ sc = Idle
    /\ bg = NoJobs
    /\ g = Globals

NextAlias ==
    \/ AliasPass
    \/ AliasPassAgain
    \/ AliasRun
    \/ AliasNextLine

SpecAlias == InitAlias /\ [][NextAlias]_vars

\* Replacing the first word again and again comes to a line whose first
\* word is no alias within n replacements.
RECURSIVE Settles(_, _, _)
Settles(line, aliases, n) ==
    IF FirstWord(line) \notin DOMAIN aliases THEN TRUE
    ELSE IF n = 0 THEN FALSE
    ELSE Settles(expand_aliases(line, aliases), aliases, n - 1)

\* C23: when the chain of aliases from the first word ends within 16
\* replacements, the output of expand_aliases has a first word that is no
\* alias, and expand_aliases applied to that output returns it unchanged.
C23_AliasPassReachesFixedPoint ==
    (sh.pc = "twice" /\ Settles(sh.line, sh.aliases, 16)) =>
        /\ FirstWord(sh.out) \notin DOMAIN sh.aliases
        /\ sh.again = sh.out

\* C24: after the line alias n='a b', the line n runs a with the argument b.
C24_AliasValueIsRescanned ==
    (/\ sh.pc = "ran"
     /\ sh.prev = AliasWord \o <<" ", "n", "=", "'", "a", " ", "b", "'">>
     /\ sh.line = <<"n">>) =>
        sh.argv = << <<"a">>, <<"b">> >>

----------------------------------------------------------------------------
(* SpecTokenize: tokenize_input and shell_validate_syntax on every line    *)
(* over a small alphabet, and on some lines with quotes.                   *)

LineAlphabet == {"a", " ", "|", "&", ";", "<", ">"}
MaxLineLen == 4
QuoteLines ==
    { <<"a", "\"", "b", " ", "c", "\"", "d">>,
      <<"\"", "a", "\"", "b">>,
      <<"a", "'", "b", "'">>,
      <<"\"", "a", " ", "b", "\"">>,
      <<"'", "a", "'">>,
      <<"\"", "a">>,
      <<"a", " ", "'", "b">>,
      <<"a", " ", "\"", "b", ";", "a">> }
TokLines ==
    UNION {[1..n -> LineAlphabet] : n \in 0..MaxLineLen} \cup QuoteLines

TokenizeLine ==
    /\ sh.pc = "line"
    /\ sh' = [sh EXCEPT !.pc = "tokens",
                        !.tokens = tokenize_input(sh.line, MAX_TOKENS)]
    /\ UNCHANGED <<fs, ao, log, pp, sc, rl, bg, g>>

ValidateLine ==
    /\ sh.pc = "tokens"
    /\ sh' = [sh EXCEPT !.pc = "checked",
                        !.result = Some(shell_validate_syntax(sh.line))]
    /\ UNCHANGED <<fs, ao, log, pp, sc, rl, bg, g>>

InitTokenize ==
    /\ \E line \in TokLines :
          sh = [pc |-> "line", line |-> line, tokens |-> <<>>, result |-> None]
    /\ fs = NoFiles
    /\ log = <<>>
    /\ ao = Idle /\ pp = Idle /\ rl = Idle /\ sc = Idle
    /\ bg = NoJobs
    /\ g = Globals

NextTokenize ==
    \/ TokenizeLine
    \/ ValidateLine

SpecTokenize == InitTokenize /\ [][NextTokenize]_vars

\* How the quotes of a line pair up when read from the left: a quote
\* character opens a quoted stretch that the same character closes.  open
\* is the quote still open at the end; payload is the line without the
\* quotes that delimit; blank says that white space stands outside quotes.
RECURSIVE QuoteScan(_, _, _, _, _)
QuoteScan(s, p, q, payload, blank) ==
    IF p > Len(s) THEN [open |-> q, payload |-> payload, blank |-> blank]
    ELSE IF q = "" /\ s[p] \in {"'", "\""}
    THEN QuoteScan(s, p + 1, s[p], payload, blank)
    ELSE IF q = ""
    THEN QuoteScan(s, p + 1, q, Append(payload, s[p]), blank \/ isspace(s[p]))
    ELSE IF s[p] = q
    THEN QuoteScan(s, p + 1, "", payload, blank)
    ELSE QuoteScan(s, p + 1, q, Append(payload, s[p]), blank)

Quotes(line) == QuoteScan(line, 1, "", <<>>, FALSE)

\* C25: a line with a quote that is never closed is refused: when it has
\* been tokenized and checked, the answer is not PARSE_SUCCESS, so that no
\* command of it runs.
C25_UnclosedQuoteFails ==
    (sh.pc = "checked" /\ Quotes(sh.line).open # "") =>
        sh.result # Some(PARSE_SUCCESS)

\* C26: a line of quoted and unquoted fragments with no white space outside
\* quotes is one Word token whose payload is the fragments put together.
C26_AdjacentFragmentsOneWord ==
    (/\ sh.pc = "tokens"
     /\ sh.line \in QuoteLines
     /\ Quotes(sh.line).open = ""
     /\ ~Quotes(sh.line).blank) =>
        /\ Len(sh.tokens) = 2
        /\ sh.tokens[1].type = "WORD"
        /\ sh.tokens[1].value = Quotes(sh.line).payload
        /\ sh.tokens[2].type = "EOF"

\* The grammar, on the types of the tokens before EOF:
\*   list     := andor ((';' | '&') andor)* (';' | '&')?
\*   andor    := pipeline (('&&' | '||') pipeline)*
\*   pipeline := command ('|' command)*
\*   command  := Word (Word | redir)*      redir := ('<' | '>' | '>>') Word
Types(toks) ==
    [k \in 1..Len(SelectSeq(toks, LAMBDA t : t.type # "EOF")) |-> toks[k].type]

\* ts cut at every token of seps.
RECURSIVE SplitAt(_, _)
SplitAt(ts, seps) ==
    IF \E k \in 1..Len(ts) : ts[k] \in seps
    THEN LET k == Min({j \in 1..Len(ts) : ts[j] \in seps})
         IN  <<SubSeq(ts, 1, k - 1)>> \o SplitAt(SubSeq(ts, k + 1, Len(ts)), seps)
    ELSE <<ts>>

RedirTypes == {"INPUT_REDIRECT", "OUTPUT_REDIRECT", "OUTPUT_APPEND"}

DerivesCommand(ts) ==
    /\ Len(ts) >= 1
    /\ ts[1] = "WORD"
    /\ \A k \in 1..Len(ts) :
          /\ ts[k] \in {"WORD"} \cup RedirTypes
          /\ ts[k] \in RedirTypes => k < Len(ts) /\ ts[k + 1] = "WORD"
DerivesPipeline(ts) ==
    \A k \in DOMAIN SplitAt(ts, {"PIPE"}) :
        DerivesCommand(SplitAt(ts, {"PIPE"})[k])
DerivesAndOr(ts) ==
    \A k \in DOMAIN SplitAt(ts, {"AND", "OR"}) :
        DerivesPipeline(SplitAt(ts, {"AND", "OR"})[k])
ListBody(ts) ==
    IF Len(ts) > 0 /\ ts[Len(ts)] \in {"SEMICOLON", "AMPERSAND"}
    THEN SubSeq(ts, 1, Len(ts) - 1)
    ELSE ts
DerivesList(ts) ==
    \A k \in DOMAIN SplitAt(ListBody(ts), {"SEMICOLON", "AMPERSAND"}) :
        DerivesAndOr(SplitAt(ListBody(ts), {"SEMICOLON", "AMPERSAND"})[k])

\* C28 as stated: the validator accepts exactly the token sequences the
\* grammar derives.
C28_AcceptsExactlyTheGrammar ==
    sh.pc = "checked" =>
        (sh.result = Some(PARSE_SUCCESS) <=> DerivesList(Types(sh.tokens)))

\* C28, amended: the validator accepts the empty token sequence (a blank
\* line, a comment) and, of the others, exactly those the grammar derives;
\* so it refuses two operators in a row, a pipe with nothing to its right, a
\* redirection with no file and a line that starts with an operator.
C28_AcceptsGrammarOrEmpty ==
    sh.pc = "checked" =>
        (sh.result = Some(PARSE_SUCCESS) <=>
            \/ Types(sh.tokens) = <<>>
            \/ DerivesList(Types(sh.tokens)))

\* `a|a;` was accepted.
C28_Witness ==
    /\ sh.pc = "checked"
    /\ sh.line = <<"a", "|", "a", ";">>
    /\ sh.result = Some(PARSE_SUCCESS)
    /\ DerivesList(Types(sh.tokens))

----------------------------------------------------------------------------
(* The variable store and the environment: set_variable, unset_variable,   *)
(* export_variable (builtins_ai.c 478-569), called by the assignment path *)
(* of execute_single_command and by builtin_export and builtin_unset.      *)

VAR_FLAG_EXPORTED == 1

VarNames  == {<<"x">>, <<"y">>}
VarValues == {<<"a">>, <<"b">>}
MaxVarOps == 3

\* The store maps a name to its value and flags; the environment maps a
\* name to its value.
Var(value, flags) == [value |-> value, flags |-> flags]
WithVar(f, name, v) ==
    [n \in DOMAIN f \cup {name} |-> IF n = name THEN v ELSE f[n]]
WithoutVar(f, name) == [n \in DOMAIN f \ {name} |-> f[n]]

\* flags |= more, for the one flag there is here.
OrFlags(flags, more) == IF flags = 1 \/ more = 1 THEN 1 ELSE 0

\* set_variable(name, value, flags): the value is stored, the flags are
\* added to those the variable has, and setenv is called when the flags
\* passed in have VAR_FLAG_EXPORTED.
set_variable(v, name, value, flags) ==
    [store |-> WithVar(v.store, name,
                       IF name \in DOMAIN v.store
                       THEN Var(value, OrFlags(v.store[name].flags, flags))
                       ELSE Var(value, flags)),
     env   |-> IF flags = VAR_FLAG_EXPORTED THEN WithVar(v.env, name, value)
               ELSE v.env]

\* unset_variable(name).
unset_variable(v, name) ==
    [store |-> WithoutVar(v.store, name), env |-> WithoutVar(v.env, name)]

\* export_variable(name).
export_variable(v, name) ==
    IF name \in DOMAIN v.store
    THEN [store |-> WithVar(v.store, name,
                            Var(v.store[name].value, VAR_FLAG_EXPORTED)),
          env   |-> WithVar(v.env, name, v.store[name].value)]
    ELSE set_variable(v, name, <<>>, VAR_FLAG_EXPORTED)

VarStep(v, op) ==
    /\ sh.pc = "vars"
    /\ sh.n < MaxVarOps
    /\ sh' = [sh EXCEPT !.n = sh.n + 1, !.store = v.store, !.env = v.env,
                        !.ops = Append(sh.ops, op)]
    /\ UNCHANGED <<fs, ao, log, pp, sc, rl, bg, g>>

\* execute.c 150-161: the line NAME=value.
VarAssign ==
    \E name \in VarNames, value \in VarValues :
        VarStep(set_variable(sh, name, value, 0), <<"assign", name, value>>)

\* builtin_export: export NAME=value.
VarExportValue ==
    \E name \in VarNames, value \in VarValues :
        VarStep(set_variable(sh, name, value, VAR_FLAG_EXPORTED),
                <<"export", name, value>>)

\* builtin_export: export NAME.
VarExport ==
    \E name \in VarNames :
        VarStep(export_variable(sh, name), <<"export", name>>)

\* builtin_unset: unset NAME.
VarUnset ==
    \E name \in VarNames :
        VarStep(unset_variable(sh, name), <<"unset", name>>)

\* variables_init: every variable of the environment the shell was started
\* in is put into the store as exported (sync_from_environment).
StartEnvironments ==
    { [n \in {} |-> <<>>], [n \in {<<"x">>} |-> <<"a">>] }

InitVars ==
    /\ \E env \in StartEnvironments :
          sh = [pc |-> "vars", n |-> 0, ops |-> <<>>, env |-> env,
                store |-> [n \in DOMAIN env |-> Var(env[n], VAR_FLAG_EXPORTED)]]
    /\ fs = NoFiles
    /\ log = <<>>
    /\ ao = Idle /\ pp = Idle /\ rl = Idle /\ sc = Idle
    /\ bg = NoJobs
    /\ g = Globals

NextVars ==
    \/ VarAssign
    \/ VarExportValue
    \/ VarExport
    \/ VarUnset

SpecVars == InitVars /\ [][NextVars]_vars

\* C27: every variable of the store that is marked exported is in the
\* environment with the value the store has for it.
C27_ExportedMatchesEnvironment ==
    \A name \in DOMAIN sh.store :
        sh.store[name].flags = VAR_FLAG_EXPORTED =>
            /\ name \in DOMAIN sh.env
            /\ sh.env[name] = sh.store[name].value

\* The other direction holds: a name of the environment that the store
\* knows is marked exported there.
EnvironmentNamesAreExported ==
    \A name \in DOMAIN sh.env \cap DOMAIN sh.store :
        sh.store[name].flags = VAR_FLAG_EXPORTED

----------------------------------------------------------------------------
(* Pathname patterns: has_glob_chars, glob_match, glob_expand and          *)
(* expand_glob_args (part_007 50-244).  expand_glob_args has no caller:    *)
(* the words of a line reach execute_single_command as the tokenizer made  *)
(* them.                                                                   *)

has_glob_chars(str) == \E k \in 1..Len(str) : str[k] \in {"*", "?", "["}

\* match_pattern for patterns of literal characters, * and ?.
RECURSIVE glob_match(_, _)
glob_match(pattern, str) ==
    IF pattern = <<>> THEN str = <<>>
    ELSE IF pattern[1] = "*"
    THEN \/ glob_match(Tail(pattern), str)
         \/ str # <<>> /\ glob_match(pattern, Tail(str))
    ELSE IF str = <<>> THEN FALSE
    ELSE IF pattern[1] = "?" THEN glob_match(Tail(pattern), Tail(str))
    ELSE pattern[1] = str[1] /\ glob_match(Tail(pattern), Tail(str))

\* The names a directory can hold, in the order of strcmp.
DirNames == << <<"f">>, <<"g">> >>

\* glob_expand(pattern) in the directory dir: the matching names, sorted.
glob_expand(pattern, dir) ==
    SelectSeq(DirNames, LAMBDA n : n \in dir /\ glob_match(pattern, n))

\* expand_glob_args(args, &argc).
RECURSIVE expand_glob_args(_, _)
expand_glob_args(args, dir) ==
    IF args = <<>> THEN <<>>
    ELSE (IF has_glob_chars(args[1]) /\ glob_expand(args[1], dir) # <<>>
          THEN glob_expand(args[1], dir)
          ELSE <<args[1]>>)
         \o expand_glob_args(Tail(args), dir)

GlobLines ==
    { <<"a", " ", "*">>, <<"a", " ", "?">>, <<"a", " ", "f", "*">>,
      <<"a", " ", "x", "*">>, <<"a", " ", "b">>, <<"c", "d", " ", "*">> }

NoAliases == [n \in {} |-> <<>>]

\* main.c 88-119 and execute.c 265-298: the line is preprocessed and
\* tokenized, parse_command_from_tokens makes the command of its words, and
\* execute_single_command is entered with it.
GlobDispatch ==
    /\ sh.pc = "line"
    /\ sh' = [sh EXCEPT !.pc = "single"]
    /\ sc' = SingleCall(
                parse_command_from_tokens(
                    tokenize_input(preprocess_input(sh.line, NoAliases,
                                                    Values(g.last_exit_status,
                                                           NoVariables)),
                                   MAX_TOKENS),
                    fs).cmd[1])
    /\ UNCHANGED <<fs, ao, log, pp, rl, bg, g>>

InitGlob ==
    /\ \E dir \in SUBSET {DirNames[k] : k \in DOMAIN DirNames} :
          fs = [exist |-> dir, nowrite |-> {}]
    /\ \E line \in GlobLines : sh = [pc |-> "line", line |-> line]
    /\ sc = Idle
    /\ log = <<>>
    /\ ao = Idle /\ pp = Idle /\ rl = Idle
    /\ bg = NoJobs
    /\ g = Globals

NextGlob ==
    \/ GlobDispatch
    \/ sc.pc # "idle" /\ NextSingle

SpecGlob == InitGlob /\ [][NextGlob]_vars

\* C29: the command that is executed has, for every unquoted word with *, ?
\* or [, the sorted names of the directory that match it, and the word
\* itself when none matches.
C29_PatternsExpandedBeforeExecution ==
    sc.pc # "idle" =>
        sc.cmd.argv = expand_glob_args(ArgvOf(sh.line, NoAliases, 0), fs.exist)

\* The part that holds: a pattern that matches no name stays as it is.
UnmatchedPatternStays ==
    (sc.pc # "idle"
        /\ \A k \in 1..Len(ArgvOf(sh.line, NoAliases, 0)) :
              glob_expand(ArgvOf(sh.line, NoAliases, 0)[k], fs.exist) = <<>>) =>
        sc.cmd.argv = ArgvOf(sh.line, NoAliases, 0)

----------------------------------------------------------------------------
(* The two history stores: history_add of the line editor (part_009        *)
(* 540-556) and log_add_command of the persistent log (part_006 65-86).    *)

\* Scaled down: HISTORY_SIZE is 1000 and LOG_MAX_ENTRIES is 15.
HISTORY_SIZE == 2
LOG_MAX_ENTRIES == 2
MaxAdds == 4
HistoryLines == {<<>>, <<"a">>, <<"b">>, <<"c">>}

\* history_add(line) on the array history[0 .. history_len - 1].
history_add(history, line) ==
    IF line = <<>> THEN history
    ELSE IF Len(history) > 0 /\ history[Len(history)] = line THEN history
    ELSE IF Len(history) >= HISTORY_SIZE THEN Append(Tail(history), line)
    ELSE Append(history, line)

\* g_command_log after log_init: commands[0 .. LOG_MAX_ENTRIES - 1], count
\* and head.
EmptyLog ==
    [commands |-> [k \in 0..(LOG_MAX_ENTRIES - 1) |-> <<>>],
     count |-> 0, head |-> 0]

\* log_add_command(command).
log_add_command(l, command) ==
    IF command = <<>> THEN l
    ELSE IF /\ l.count > 0
            /\ l.commands[(l.count - 1) % LOG_MAX_ENTRIES] = command
    THEN l
    ELSE IF l.count < LOG_MAX_ENTRIES
    THEN [l EXCEPT !.commands[l.count] = command, !.count = l.count + 1]
    ELSE [l EXCEPT !.commands[l.head] = command,
                   !.head = (l.head + 1) % LOG_MAX_ENTRIES]

\* The entries of the log from the oldest to the newest, as builtin_log
\* lists them (builtins_history.c 26-27).
LogEntries(l) ==
    IF l.count < LOG_MAX_ENTRIES
    THEN [k \in 1..l.count |-> l.commands[k - 1]]
    ELSE [k \in 1..LOG_MAX_ENTRIES |->
             l.commands[(l.head + k - 1) % LOG_MAX_ENTRIES]]

\* What a store of capacity cap holds after one more line: an empty line
\* and a repetition of the newest entry are dropped, the oldest entry goes
\* when the store is full.
Remembered(entries, line, cap) ==
    IF line = <<>> THEN entries
    ELSE IF Len(entries) > 0 /\ entries[Len(entries)] = line THEN entries
    ELSE IF Len(entries) >= cap THEN Append(Tail(entries), line)
    ELSE Append(entries, line)

\* main.c 85: the line goes to the editor's history.
HistoryAdd ==
    /\ sh.pc = "history"
    /\ sh.n < MaxAdds
    /\ \E line \in HistoryLines :
          sh' = [sh EXCEPT
                   !.n = sh.n + 1,
                   !.history = history_add(sh.history, line),
                   !.want_history = Remembered(sh.want_history, line,
                                               HISTORY_SIZE)]
    /\ UNCHANGED <<fs, ao, log, pp, sc, rl, bg, g>>

\* main.c 124: the line goes to the persistent log.
LogAdd ==
    /\ sh.pc = "history"
    /\ sh.n < MaxAdds
    /\ \E line \in HistoryLines :
          sh' = [sh EXCEPT
                   !.n = sh.n + 1,
                   !.cmdlog = log_add_command(sh.cmdlog, line),
                   !.want_log = Remembered(sh.want_log, line, LOG_MAX_ENTRIES)]
    /\ UNCHANGED <<fs, ao, log, pp, sc, rl, bg, g>>

InitHistory ==
    /\ sh = [pc |-> "history", n |-> 0, history |-> <<>>, cmdlog |-> EmptyLog,
             want_history |-> <<>>, want_log |-> <<>>]
    /\ fs = NoFiles
    /\ log = <<>>
    /\ ao = Idle /\ pp = Idle /\ rl = Idle /\ sc = Idle
    /\ bg = NoJobs
    /\ g = Globals

NextHistory ==
    \/ HistoryAdd
    \/ LogAdd

SpecHistory == InitHistory /\ [][NextHistory]_vars

\* C30: neither store holds more than its capacity, and each holds what a
\* store of that capacity should after the lines it was given: a line equal
\* to the newest entry was dropped, the oldest entry went when the store
\* was full, the others kept their order.
C30_HistoryStoresBounded ==
    /\ Len(sh.history) <= HISTORY_SIZE
    /\ sh.cmdlog.count <= LOG_MAX_ENTRIES
    /\ sh.history = sh.want_history
    /\ LogEntries(sh.cmdlog) = sh.want_log

\* What holds of both: the capacity, and the whole statement for the
\* editor's history; the log is right until it wraps around.
HistoryStoresWithinCapacity ==
    /\ Len(sh.history) <= HISTORY_SIZE
    /\ sh.cmdlog.count <= LOG_MAX_ENTRIES
    /\ sh.history = sh.want_history
    /\ Len(sh.want_log) < LOG_MAX_ENTRIES => LogEntries(sh.cmdlog) = sh.want_log

----------------------------------------------------------------------------
(* The history file: log_save_history and log_load_history (part_006       *)
(* 21-63), over a session of added lines and restarts of the shell.        *)

\* log_save_history: commands[0 .. count - 1], one per line.
log_save_history(l) == [k \in 1..l.count |-> l.commands[k - 1]]

\* log_load_history on the file: at most LOG_MAX_ENTRIES lines go into the
\* slots from 0 on, head is 0.
log_load_history(file) ==
    [commands |-> [k \in 0..(LOG_MAX_ENTRIES - 1) |->
                      IF k < Len(file) THEN file[k + 1] ELSE <<>>],
     count |-> IF Len(file) < LOG_MAX_ENTRIES THEN Len(file) ELSE LOG_MAX_ENTRIES,
     head |-> 0]

\* log_add_command returns before log_save_history for an empty command and
\* for one it takes for a repetition.
LogDrops(l, command) ==
    \/ command = <<>>
    \/ l.count > 0 /\ l.commands[(l.count - 1) % LOG_MAX_ENTRIES] = command

\* main.c 124: log_add_command, which ends with log_save_history.
LogFileAdd ==
    /\ sh.pc \in {"log", "loaded"}
    /\ sh.n < MaxAdds
    /\ \E line \in HistoryLines :
          sh' = [sh EXCEPT
                   !.pc = "log",
                   !.n = sh.n + 1,
                   !.cmdlog = log_add_command(sh.cmdlog, line),
                   !.file = IF LogDrops(sh.cmdlog, line) THEN sh.file
                            ELSE Some(log_save_history(
                                        log_add_command(sh.cmdlog, line)))]
    /\ UNCHANGED <<fs, ao, log, pp, sc, rl, bg, g>>

\* The shell is left and started again in the same directory: log_init
\* loads the file, if there is one.
LogFileRestart ==
    /\ sh.pc = "log"
    /\ sh.n < MaxAdds
    /\ sh' = [sh EXCEPT
                !.pc = "loaded",
                !.n = sh.n + 1,
                !.before = LogEntries(sh.cmdlog),
                !.cmdlog = IF sh.file = None THEN EmptyLog
                           ELSE log_load_history(sh.file[1])]
    /\ UNCHANGED <<fs, ao, log, pp, sc, rl, bg, g>>

InitLogFile ==
    /\ sh = [pc |-> "log", n |-> 0, cmdlog |-> EmptyLog, file |-> None,
             before |-> <<>>]
    /\ fs = NoFiles
    /\ log = <<>>
    /\ ao = Idle /\ pp = Idle /\ rl = Idle /\ sc = Idle
    /\ bg = NoJobs
    /\ g = Globals

NextLogFile ==
    \/ LogFileAdd
    \/ LogFileRestart

SpecLogFile == InitLogFile /\ [][NextLogFile]_vars

\* C31: the file lists the entries oldest first: the log loaded from it at
\* the next start has the entries, from the oldest to the newest, that the
\* log had when the shell was left.
C31_SaveLoadKeepsOrder ==
    sh.pc = "loaded" => LogEntries(sh.cmdlog) = sh.before

\* The part that holds: while head is 0 (the log has not wrapped, or has
\* wrapped a whole number of times) the file is in the order of the log.
FileInOrderWhileHeadIsZero ==
    (sh.file # None /\ sh.cmdlog.head = 0 /\ sh.pc = "log" /\ sh.cmdlog.count > 0) =>
        LogEntries(log_load_history(sh.file[1])) = LogEntries(sh.cmdlog)

----------------------------------------------------------------------------
(* SpecComplete: Tab completion in shell_readline on lines typed with      *)
(* letters, blanks and the operator character |.                           *)

\* Lines 524-529 for the character |.
KeyOperatorChar ==
    /\ rl.pc = "reading"
    /\ RlStep(insert_char(rl, "|"))

InitComplete ==
    /\ \E term \in TermStates : rl = ReadlineInit(TRUE, term, <<>>)
    /\ fs = NoFiles
    /\ log = <<>>
    /\ ao = Idle /\ pp = Idle /\ sc = Idle /\ sh = Idle /\ bg = NoJobs
    /\ g = Globals

NextComplete ==
    \/ ReadlineStart
    \/ KeyChar
    \/ KeyOperatorChar
    \/ KeyLeft
    \/ KeyTab

SpecComplete == InitComplete /\ [][NextComplete]_vars

\* A key has changed the line: a Tab that put a candidate in, or a typed
\* character.
LineEdited == rl.pc = "reading" /\ rl'.pc = "reading" /\ rl'.line # rl.line

\* C32: a Tab that finds exactly one candidate for the word under the cursor
\* (the word ends at the cursor and starts after the last blank, |, ; or &)
\* replaces that word only: the text before the start of the word and the
\* text after the cursor are the same before and after the key.  (A typed
\* character changes the line within the same limits.)
C32_OnlyTheWordIsReplaced ==
    [][LineEdited =>
          /\ SubSeq(rl'.line, 1, get_word_to_complete(rl.line, rl.cursor_pos))
                = SubSeq(rl.line, 1, get_word_to_complete(rl.line, rl.cursor_pos))
          /\ SubSeq(rl'.line, rl'.cursor_pos + 1, Len(rl'.line))
                = SubSeq(rl.line, rl.cursor_pos + 1, Len(rl.line))]_vars

\* The part that holds: the text after the cursor stays.
TextAfterCursorStays ==
    [][LineEdited =>
          SubSeq(rl'.line, rl'.cursor_pos + 1, Len(rl'.line))
             = SubSeq(rl.line, rl.cursor_pos + 1, Len(rl.line))]_vars

----------------------------------------------------------------------------
(* A pipeline of an and-or list that cannot be built (execute.c 308-322):  *)
(* parse_pipeline_from_tokens or parse_command_from_tokens returned NULL   *)
(* because validate_all_redirections refused a redirection.                *)

\* The log entries of the segments whose builder returned NULL.
BuildFailures == {k \in 1..Len(log) : ~log[k].ran}

\* 0-based index of the token after the segment of log entry k: the start of
\* the pipeline that follows it when an operator stands there.
StartAfter(k) == log[k].start + log[k].len + 1

\* C33: in an and-or list a pipeline that cannot be built because the
\* pre-validation of its redirections failed counts as a failed pipeline: the
\* pipeline after a following && is not executed, the pipeline after a
\* following || is executed, and when it is the last pipeline of the list the
\* result of the list is non-zero.
C33_BuildFailureCountsAsFailed ==
    ao.pc = "done" =>
        \A k \in BuildFailures :
            IF StartAfter(k) \in LaterStarts(ao.toks)
            THEN Executed(StartAfter(k)) <=> ao.toks[StartAfter(k)].type = "OR"
            ELSE ao.last_result # 0

\* What the code does instead: the pipeline that cannot be built leaves
\* last_result as it was, so the operator after it is decided by the pipeline
\* executed before it, and by SHELL_SUCCESS when there is none.
BuildFailureKeepsResult ==
    ao.pc = "done" =>
        \A k \in BuildFailures :
            /\ log[k].result = IF RanBefore(log[k].start + 1) = {} THEN SHELL_SUCCESS
                               ELSE LastResultBefore(log[k].start + 1)
            /\ (StartAfter(k) \in LaterStarts(ao.toks) /\ RanBefore(log[k].start + 1) = {}
                /\ \A j \in BuildFailures : log[j].start >= log[k].start) =>
                   (Attempted(StartAfter(k)) <=> ao.toks[StartAfter(k)].type = "AND")


----------------------------------------------------------------------------
(* The hash tables behind the variable store (builtins_ai.c 365-555) and   *)
(* the alias store (part_005 355-454): open addressing with linear        *)
(* probing, a free slot being NULL.  The tables are modelled slot by slot *)
(* with MAX_VARIABLES and MAX_ALIASES scaled down, next to the mapping    *)
(* that the sets and unsets made so far describe.                         *)

MAX_VARIABLES == 4
MAX_ALIASES   == 4
MaxStoreOps   == 4

CharCode(c) ==
    CASE c = "a" -> 97 [] c = "b" -> 98 [] c = "e" -> 101 [] OTHER -> 0

\* hash = hash * 33 + c from 5381 on.  The unsigned int wraps at 2^32,
\* which the one-character names used here do not reach.
RECURSIVE Djb2(_, _)
Djb2(name, hash) ==
    IF name = <<>> THEN hash
    ELSE Djb2(Tail(name), hash * 33 + CharCode(Head(name)))

hash_name(name)  == Djb2(name, 5381) % MAX_VARIABLES
hash_alias(name) == Djb2(name, 5381) % MAX_ALIASES

\* a and e have the same hash, b has the next one.
StoreNames  == {<<"a">>, <<"e">>, <<"b">>}
StoreValues == {<<"1">>, <<"2">>}

EmptyTable(size) == [k \in 0..(size - 1) |-> None]

\* The probe loop of find_variable and find_alias from slot `index` on: the
\* slot that holds `name`, or -1 when a NULL slot is met or the probe is back
\* at `start`.
RECURSIVE ProbeFind(_, _, _, _)
ProbeFind(tbl, name, index, start) ==
    IF tbl[index] = None THEN -1
    ELSE IF tbl[index][1].name = name THEN index
    ELSE IF (index + 1) % Cardinality(DOMAIN tbl) = start THEN -1
    ELSE ProbeFind(tbl, name, (index + 1) % Cardinality(DOMAIN tbl), start)

find_variable(tbl, name) == ProbeFind(tbl, name, hash_name(name), hash_name(name))
find_alias(tbl, name)    == ProbeFind(tbl, name, hash_alias(name), hash_alias(name))

\* The insertion loop: the first NULL slot from `index` on.
RECURSIVE ProbeFree(_, _)
ProbeFree(tbl, index) ==
    IF tbl[index] = None THEN index
    ELSE ProbeFree(tbl, (index + 1) % Cardinality(DOMAIN tbl))

\* set_variable / set_alias on the table: the value of the slot found is
\* replaced, or a new entry is put into the first free slot after the hash
\* slot unless the count says the table is full.
TableSet(t, found, home, name, value) ==
    IF found # -1
    THEN [t EXCEPT !.slots[found] = Some([name |-> name, value |-> value])]
    ELSE IF t.count >= Cardinality(DOMAIN t.slots) THEN t
    ELSE [slots |-> [t.slots EXCEPT ![ProbeFree(t.slots, home)] =
                                        Some([name |-> name, value |-> value])],
          count |-> t.count + 1]

\* unset_variable / unset_alias on the table: the slot found is set to NULL.
TableUnset(t, found) ==
    IF found = -1 THEN t
    ELSE [slots |-> [t.slots EXCEPT ![found] = None], count |-> t.count - 1]

\* What a lookup gives: the value, or NULL.
TableLookup(t, found) == IF found = -1 THEN None ELSE Some(t.slots[found][1].value)

StoreStep(field, tbl, map, op) ==
    /\ sh.pc = "store"
    /\ sh.n < MaxStoreOps
    /\ sh' = [sh EXCEPT !.n = sh.n + 1, ![field] = tbl, ![field \o "_map"] = map,
                        !.last = op,
                        !.unsets = IF op[1] \in {"unset", "unalias"} THEN sh.unsets + 1
                                   ELSE sh.unsets]
    /\ UNCHANGED <<fs, ao, log, pp, sc, rl, bg, g>>

\* NAME=value.
StoreSetVariable ==
    \E name \in StoreNames, value \in StoreValues :
        StoreStep("variables",
                  TableSet(sh.variables, find_variable(sh.variables.slots, name),
                           hash_name(name), name, value),
                  WithVar(sh.variables_map, name, value), <<"set", name>>)

\* unset NAME.
StoreUnsetVariable ==
    \E name \in StoreNames :
        StoreStep("variables",
                  TableUnset(sh.variables, find_variable(sh.variables.slots, name)),
                  WithoutVar(sh.variables_map, name), <<"unset", name>>)

\* alias NAME=value.
StoreSetAlias ==
    \E name \in StoreNames, value \in StoreValues :
        StoreStep("aliases",
                  TableSet(sh.aliases, find_alias(sh.aliases.slots, name),
                           hash_alias(name), name, value),
                  WithVar(sh.aliases_map, name, value), <<"alias", name>>)

\* unalias NAME.
StoreUnsetAlias ==
    \E name \in StoreNames :
        StoreStep("aliases",
                  TableUnset(sh.aliases, find_alias(sh.aliases.slots, name)),
                  WithoutVar(sh.aliases_map, name), <<"unalias", name>>)

\* variables_init and alias_init: both tables empty.
InitStore ==
    /\ sh = [pc |-> "store", n |-> 0, last |-> <<>>, unsets |-> 0,
             variables |-> [slots |-> EmptyTable(MAX_VARIABLES), count |-> 0],
             variables_map |-> [n \in {} |-> <<>>],
             aliases |-> [slots |-> EmptyTable(MAX_ALIASES), count |-> 0],
             aliases_map |-> [n \in {} |-> <<>>]]
    /\ fs = NoFiles
    /\ log = <<>>
    /\ ao = Idle /\ pp = Idle /\ rl = Idle /\ sc = Idle
    /\ bg = NoJobs
    /\ g = Globals

NextStore ==
    \/ StoreSetVariable
    \/ StoreUnsetVariable
    \/ StoreSetAlias
    \/ StoreUnsetAlias

SpecStore == InitStore /\ [][NextStore]_vars

NamesInSlots(t) == {t.slots[k][1].name : k \in {j \in DOMAIN t.slots : t.slots[j] # None}}

\* The table t, looked up by `found`, is the mapping `map`: a lookup gives
\* the value of the most recent set that no unset followed, no name is in
\* two slots, and the count is the number of names.
IsMapping(t, map, found) ==
    /\ \A name \in StoreNames :
          found[name] = -1 <=> name \notin DOMAIN map
    /\ \A name \in DOMAIN map :
          found[name] # -1 /\ t.slots[found[name]][1].value = map[name]
    /\ t.count = Cardinality(NamesInSlots(t))
    /\ t.count = Cardinality(DOMAIN map)

\* C34: under any sequence of sets and unsets, names with the same hash
\* included, the variable store and the alias store are mappings: looking a
\* name up gives the value of its most recent set not followed by an unset,
\* an unset makes no other name unreachable, and no name is in two slots
\* (the count is the number of distinct names).
C34_StoresAreMappings ==
    sh.pc = "store" =>
        /\ IsMapping(sh.variables, sh.variables_map,
                     [name \in StoreNames |-> find_variable(sh.variables.slots, name)])
        /\ IsMapping(sh.aliases, sh.aliases_map,
                     [name \in StoreNames |-> find_alias(sh.aliases.slots, name)])

\* Until the first unset both tables are mappings.
StoresAreMappingsWithoutUnset ==
    (sh.pc = "store" /\ sh.unsets = 0) =>
        /\ IsMapping(sh.variables, sh.variables_map,
                     [name \in StoreNames |-> find_variable(sh.variables.slots, name)])
        /\ IsMapping(sh.aliases, sh.aliases_map,
                     [name \in StoreNames |-> find_alias(sh.aliases.slots, name)])


----------------------------------------------------------------------------
(* The children of a pipeline when execute_pipeline has returned.          *)

\* The stages for which fork() returned a pid.
Forked == {k \in 1..pp.n : pp.child[k].pc # "none"}

\* The job table has an entry for the pid of stage k.
InJobTable(k) == \E j \in 1..Len(bg.jobs) : bg.jobs[j].pid = PidOf(k)

PipelineReturned == pp.pc \in {"done", "failed"} /\ pp.ret # None

\* C35: when execute_pipeline returns, every child it forked has been reaped
\* by waitpid or has an entry in the job table, also when fork failed after
\* some stages were started and when a stage was stopped.
C35_ChildrenReapedOrRecorded ==
    PipelineReturned =>
        \A k \in Forked : pp.child[k].pc = "reaped" \/ InJobTable(k)

\* When every fork succeeded and no stage was reported as stopped, every
\* child has been reaped at the return.
ChildrenReapedWhenAllEnded ==
    (pp.pc = "done" /\ \A j \in 1..Len(pp.reported) : pp.reported[j][1] # "stopped") =>
        \A k \in 1..pp.n : pp.child[k].pc = "reaped"


----------------------------------------------------------------------------
(* The pid a signal handler would signal, against the children that the    *)
(* shell has not collected yet.                                            *)

\* pid is a child of the shell that no waitpid has collected: running,
\* stopped, or ended and not yet reaped.
Uncollected(pid) ==
    \/ /\ pp.pc # "idle"
       /\ \E k \in 1..pp.n : PidOf(k) = pid /\ pp.child[k].pc \notin {"none", "reaped"}
    \/ /\ sc.pc # "idle"
       /\ pid = SinglePid
       /\ "child" \in DOMAIN sc
       /\ sc.child.pc \notin {"none", "reaped"}
    \/ /\ bg.pc # "idle"
       /\ pid \in DOMAIN bg.procs

\* C36: at every point where a handler can run, between the return of
\* waitpid and the reset included, g_foreground_pid is -1 or the pid of a
\* child that has not been collected, so that no handler run sends a signal
\* to a pid that has been reaped.
C36_ForegroundPidIsLive ==
    g.foreground_pid = -1 \/ Uncollected(g.foreground_pid)

\* The window is the one between the last waitpid of execute_pipeline and
\* its reset; outside it the pid published is that of an uncollected child.
ForegroundPidIsLiveBeforeLastWait ==
    pp.pc # "return" => (g.foreground_pid = -1 \/ Uncollected(g.foreground_pid))

\* In the window a handler does signal the pid of the reaped last stage.
ReapedPidIsSignaled ==
    /\ pp.pc = "return"
    /\ pp.child[pp.n].pc = "reaped"
    /\ g.sent = Some(<<PidOf(pp.n), SIGINT>>)


----------------------------------------------------------------------------
(* When the references of a line are expanded: main.c 84-120 with the      *)
(* segments of execute_sequential_commands (execute.c 361-398) run one by  *)
(* one, each changing g_last_exit_status (update_exit_status) or, when it  *)
(* is an assignment, the variable store (execute.c 150-161).  The store is *)
(* the mapping its sets describe.                                          *)

MaxExpandLines == 2

ExpandLines ==
    { <<"a", " ", "$", "?">>,
      <<"a", ";", "a", " ", "$", "?">>,
      <<"a", " ", "$", "x">>,
      <<"x", "=", "1", ";", "a", " ", "$", "x">>,
      <<"x", "=", "3">> }

\* The index (0-based) of the token that ends the segment starting at
\* `start`: the next ';' or the end of the tokens.
SegmentEnd(toks, start) ==
    Min({i \in start..Len(toks) :
            IsEndAt(toks, i) \/ toks[i + 1].type = "SEMICOLON"})

\* The words of the segment that starts at token index `start`.
SegmentWords(toks, start) ==
    [k \in 1..(SegmentEnd(toks, start) - start) |-> toks[start + k].value]

\* The loop variables after the segment that ended at token index e.
ExpandAdvance(s, toks, e) ==
    [s EXCEPT !.start = e + 1,
              !.pc = IF IsEndAt(toks, e) \/ e + 1 >= Len(toks) THEN "read" ELSE "run"]

\* The segment at sh.start of the token array `toks` is run: nothing for an
\* empty segment; set_variable and status 0 for NAME=value; any other
\* command runs with these words and leaves its result in
\* g_last_exit_status.
RunSegment(toks) ==
    LET e    == SegmentEnd(toks, sh.start)
        argv == SegmentWords(toks, sh.start)
    IN  IF Len(argv) = 0
        THEN /\ sh' = ExpandAdvance(sh, toks, e)
             /\ UNCHANGED g
        ELSE IF IsAssignment([argc |-> Len(argv), argv |-> argv])
        THEN /\ sh' = [ExpandAdvance(sh, toks, e) EXCEPT
                          !.variables =
                              WithVar(sh.variables,
                                      SubSeq(argv[1], 1, FirstEq(argv[1]) - 1),
                                      SubSeq(argv[1], FirstEq(argv[1]) + 1, Len(argv[1])))]
             /\ g' = [g EXCEPT !.last_exit_status = 0]
        ELSE \E res \in ResultCodes :
                /\ sh' = [ExpandAdvance(sh, toks, e) EXCEPT
                             !.ran = Append(sh.ran, [start |-> sh.start, argv |-> argv,
                                                     result |-> res])]
                /\ g' = [g EXCEPT !.last_exit_status = res]

\* main.c 84-101: the line is read, preprocessed and tokenized.
ExpandRead ==
    /\ sh.pc = "read"
    /\ sh.n < MaxExpandLines
    /\ \E line \in ExpandLines :
          sh' = [sh EXCEPT
                   !.pc = "run", !.n = sh.n + 1, !.line = line, !.start = 0,
                   !.ran = <<>>,
                   !.status0 = g.last_exit_status,
                   !.variables0 = sh.variables,
                   !.tokens = tokenize_input(
                                  preprocess_input(line, NoAliases,
                                                   Values(g.last_exit_status,
                                                          sh.variables)),
                                  MAX_TOKENS)]
    /\ UNCHANGED <<fs, ao, log, pp, sc, rl, bg, g>>

\* (mutant) each segment is expanded again when its turn comes.
ExpandSegment_ExpandsWhenRun ==
    /\ sh.pc = "run"
    /\ RunSegment(tokenize_input(
                      preprocess_input(sh.line, NoAliases,
                                       Values(g.last_exit_status, sh.variables)),
                      MAX_TOKENS))
    /\ UNCHANGED <<fs, ao, log, pp, sc, rl, bg>>

\* main.c 117-120 with execute_sequential_commands: the next segment of the
\* tokens made at line 101 is run.
ExpandSegment ==
    /\ sh.pc = "run"
    /\ RunSegment(sh.tokens)
    /\ UNCHANGED <<fs, ao, log, pp, sc, rl, bg>>

InitExpand ==
    /\ sh = [pc |-> "read", n |-> 0, line |-> <<>>, tokens |-> <<>>, start |-> 0,
             ran |-> <<>>, status0 |-> 0, variables0 |-> NoVariables,
             variables |-> NoVariables]
    /\ fs = NoFiles
    /\ log = <<>>
    /\ ao = Idle /\ pp = Idle /\ sc = Idle /\ rl = Idle
    /\ bg = NoJobs
    /\ g = Globals

NextExpand ==
    \/ ExpandRead
    \/ ExpandSegment

SpecExpand == InitExpand /\ [][NextExpand]_vars

\* C37: every command of a line runs with the words that the line has after
\* its references were replaced with the exit status and the variable values
\* of the moment the line was read, before its first segment ran; what an
\* earlier segment of the same line did to `$?` or to a variable is not seen
\* by a later one.
C37_ExpandedOnceBeforeRun ==
    \A k \in 1..Len(sh.ran) :
        sh.ran[k].argv =
            SegmentWords(tokenize_input(
                             expand_variables(sh.line,
                                              Values(sh.status0, sh.variables0)),
                             MAX_TOKENS),
                         sh.ran[k].start)

\* `a;a $?` read with status 0: the first a ended with 1 and the second ran
\* as `a 0`.
C37_Witness ==
    /\ sh.line = <<"a", ";", "a", " ", "$", "?">>
    /\ Len(sh.ran) = 2
    /\ sh.status0 = 0
    /\ sh.ran[1].result = 1
    /\ g.last_exit_status = 1
    /\ sh.ran[2].argv = << <<"a">>, <<"0">> >>

\* `x=1;a $x` read with x unset: a ran with no argument although x is 1 by
\* then.
AssignmentOfTheLineNotSeen ==
    /\ sh.line = <<"x", "=", "1", ";", "a", " ", "$", "x">>
    /\ Len(sh.ran) = 1
    /\ sh.variables0 = NoVariables
    /\ sh.variables = [n \in {<<"x">>} |-> <<"1">>]
    /\ sh.ran[1].argv = << <<"a">> >>


----------------------------------------------------------------------------
(* The state of the line editor between two keys.                          *)

\* C38: after any sequence of keys in shell_readline,
\* 0 <= cursor_pos <= line_length <= LINE_BUFFER_SIZE - 1, the byte at
\* line_buffer[line_length] is the NUL, and 0 <= history_index <= history_len.
C38_EditorStateInBounds ==
    /\ 0 <= rl.cursor_pos
    /\ rl.cursor_pos <= Len(rl.line)
    /\ Len(rl.line) <= LINE_BUFFER_SIZE - 1
    /\ rl.end_byte = NUL
    /\ 0 <= rl.history_index
    /\ rl.history_index <= Len(rl.history)

\* The buffer is full after an entry of the history longer than the buffer
\* was recalled, text has been killed and the cursor is inside the line.
C38_Witness ==
    /\ rl.pc = "reading"
    /\ Len(rl.line) = LINE_BUFFER_SIZE - 1
    /\ Len(rl.history) = 2
    /\ rl.history_index = 0
    /\ rl.kill # <<>>
    /\ rl.cursor_pos < Len(rl.line)


----------------------------------------------------------------------------
(* SpecTokenLimit: tokenize_input on words and quoted strings whose length *)
(* is around MAX_TOKEN_LENGTH, with and without a backslash escape at the  *)
(* end.  The payload of a token is value[0 .. Len - 1] and its NUL is      *)
(* written at value[Len].                                                  *)

FillOf(n) == [k \in 1..n |-> "a"]

LimitLines ==
    { open \o FillOf(n) \o tail \o open :
         open \in {<<>>, <<"\"">>, <<"'">>},
         n \in 0..(MAX_TOKEN_LENGTH + 1),
         tail \in {<<>>, <<"\\", "a">>, <<"\\", "n">>} }

InitTokenLimit ==
    /\ \E line \in LimitLines :
          sh = [pc |-> "line", line |-> line, tokens |-> <<>>, result |-> None]
    /\ fs = NoFiles
    /\ log = <<>>
    /\ ao = Idle /\ pp = Idle /\ rl = Idle /\ sc = Idle
    /\ bg = NoJobs
    /\ g = Globals

NextTokenLimit ==
    \/ TokenizeLine
    \/ ValidateLine

SpecTokenLimit == InitTokenLimit /\ [][NextTokenLimit]_vars

\* C39: tokenize_input writes the payload of every token, its NUL included,
\* at the indices 0 .. MAX_TOKEN_LENGTH - 1 of the value array only, also
\* for a double-quoted string with a backslash escape that is not one of
\* the known ones near the limit.
C39_PayloadWithinValue ==
    \A k \in 1..Len(sh.tokens) : Len(sh.tokens[k].value) <= MAX_TOKEN_LENGTH - 1

\* A line without a backslash in double quotes stays within the array.
PayloadWithinValueWithoutEscape ==
    (At(sh.line, 1) # "\"" \/ \A j \in 1..Len(sh.line) : sh.line[j] # "\\") =>
        \A k \in 1..Len(sh.tokens) : Len(sh.tokens[k].value) <= MAX_TOKEN_LENGTH - 1

====
